---- MODULE Spec2Model ----
(***************************************************************************)
(* A model of the FastMCP server (fastmcp/src/FastMCP.ts): the session     *)
(* connection state machine, the server's active-session list and its      *)
(* connect/disconnect events over the three transport bindings (stdio,     *)
(* HTTP stream with sessions, HTTP stream stateless), per-session tool     *)
(* filtering, the call-tool request handler with its timeout race, result   *)
(* normalisation and notifications, the roots list, the keep-alive pings,   *)
(* waitForReady(), the logging level, the prompt, resource, completion and  *)
(* list request handlers, the registries and their add methods, the        *)
(* runtime configuration of start() and the /health and /ready endpoints.   *)
(*                                                                         *)
(* The protocol engine (@modelcontextprotocol/sdk) and the HTTP transport  *)
(* layer (mcp-proxy startHTTPServer) are the environment.  The transport   *)
(* layer calls createServer once per inbound connection, then connect()    *)
(* and onConnect on the session it got; when the transport of a connected  *)
(* session closes it calls onClose and then close() on the session, once.  *)
(* Host code can reach a session (to call connect()/close() on it) once    *)
(* the server has published it.  The tool registry is filled before        *)
(* start() and not changed afterwards.  A transport that buffers outbound   *)
(* writes (HTTP stream) hands a notification to the client when the event   *)
(* loop next turns; the stdio transport writes it at once.  Whether the     *)
(* HTTP transport objects carry a type property is left open.               *)
(* The listRoots() requests of a session are numbered as they are issued   *)
(* and their responses may arrive in any order.  A call-tool request for   *)
(* which a session registered no handler is answered by the protocol       *)
(* engine with "method not found".  A promise that rejects without a       *)
(* handler is counted as an unhandled rejection.                           *)
(***************************************************************************)
EXTENDS Integers, Sequences, FiniteSets, TLC

\* ---- bounds of the model ----
MaxConns == 2
MaxConnects == 2
MaxCalls == 2
MaxNotifs == 2
MaxRootsChanges == 2
MaxPings == 2
MaxWaits == 1
MaxSetLevels == 2
MaxHttp == 2
MaxRequests == 2
MaxEntries == 2
MaxLists == 2
MaxCloseErrors == 1

\* connect(): const maxAttempts = 10
maxAttempts == 10

Conns == 1..MaxConns
\* the first two connections
TwoConns == {1, 2}

\* Auth values the authenticate hook can resolve to; "undef" is undefined.
Auths == {"undef", "user", "admin"}
\* Values the authenticate hook can throw.
Thrown == {"Response401", "Error"}
\* Requests handed to the hook: an HTTP request, or none on stdio.
NoRequest == "none"

\* ---- tools (the fixtures of the canAccess and InvalidParams tests) ----
ToolNames == {"admin-tool", "public-tool", "add"}
hasCanAccess(t) == t = "admin-tool"
\* canAccess: (auth) => auth?.role === "admin"
canAccess(t, auth) == auth = "admin"
\* parameters: z.object({a: z.number(), b: z.number()})
hasParameters(t) == t = "add"
\* timeoutMs: 1000 (the fixture of the timeout test)
hasTimeoutMs(t) == t = "public-tool"
Registries == { <<"admin-tool">>, <<"admin-tool", "public-tool", "add">> }

\* ---- server options ----
\* ServerOptions.ping.enabled / ping.logLevel / roots.enabled / health.enabled /
\* health.path; "unset": not given
Options ==
  [pingEnabled : {"unset", "true", "false"},
   pingLogLevel : {"unset", "warning", "critical"},
   rootsEnabled : {"unset", "false"},
   healthEnabled : {"unset"},
   healthPath : {"unset"}]
DefaultOptions ==
  [pingEnabled |-> "unset", pingLogLevel |-> "unset", rootsEnabled |-> "unset",
   healthEnabled |-> "unset", healthPath |-> "unset"]
\* the health entries a server can be built with, the rest left at its default
HealthOptions ==
  {[DefaultOptions EXCEPT !.healthEnabled = e, !.healthPath = p] :
     e \in {"unset", "true", "false"}, p \in {"unset", "/ready"}}

\* levels of the protocol's LoggingLevel enumeration a client asks for
LoggingLevels == {"debug", "error"}

\* ---- prompts, resources and resource templates ----
\* A prompt is named by its name, a resource by its URI, a template by its URI
\* pattern.  A completion value is a pair <<word, number>>.
\* "greet": arguments name (required), style (enum formal/casual), city (with
\* a completer); "catalog": argument item with an enum of 101 values;
\* "plain": no arguments
PromptNames == {"greet", "catalog", "plain"}
promptArguments(p) ==
  CASE p = "greet" -> <<"name", "style", "city">>
    [] p = "catalog" -> <<"item">>
    [] OTHER -> <<>>
argRequired(p, a) == p = "greet" /\ a = "name"
hasComplete(p, a) == p = "greet" /\ a = "city"
argEnum(p, a) ==
  IF p = "greet" /\ a = "style" THEN << <<"formal", 0>>, <<"casual", 0>> >>
  ELSE IF p = "catalog" /\ a = "item" THEN [i \in 1..101 |-> <<"item", i>>]
  ELSE <<>>
hasEnum(p, a) == argEnum(p, a) # <<>>

\* URIs are sequences of segments; a template segment in braces is a variable
appLog == <<"file:///logs/", "app", ".log">>
dbLog == <<"file:///logs/", "db", ".log">>
readme == <<"docs://", "readme">>
missing == <<"docs://", "missing">>
logTemplate == <<"file:///logs/", "{name}", ".log">>
\* a second template that fits some of the same URIs: file:///logs/db{ext}
dbTemplate == <<"file:///logs/", "db", "{ext}">>
RequestUris == {appLog, dbLog, readme, missing}
isVariable(seg) == seg \in {"{name}", "{ext}"}
\* the name property of a resource or a template
resourceName(uri) ==
  CASE uri = appLog -> "Application Logs"
    [] uri = readme -> "Readme"
    [] uri = logTemplate -> "Log file"
    [] uri = dbLog -> "Database Logs"
    [] uri = dbTemplate -> "Database file"
    [] OTHER -> "none"
\* the template of argument completion: its argument name has a completer
templateHasComplete(tpl, a) == tpl = logTemplate /\ a = "name"

TestRegistry ==
  [prompts |-> <<"greet", "catalog", "plain">>,
   resources |-> <<appLog, readme>>,
   resourcesTemplates |-> <<logTemplate>>]

\* ---- requests for the built-in HTTP endpoints ----
\* no request answered yet
\* a response body: none, the plain text of /health, the JSON object of /ready
NoBody == [kind |-> "none", text |-> "", mode |-> "none", ready |-> 0, status |-> "none", total |-> 0]
NoHttp == [n |-> 0, method |-> "none", path |-> "none", status |-> 0, body |-> NoBody]

\* ---- start() options, command line, environment ----
\* "unset": the option, the --flag or the FASTMCP_ variable is not given; the
\* port option is a number, given as <<n>> and not given as <<>>; flags and
\* variables are strings
Overrides ==
  [transportType : {"unset", "stdio", "httpStream"},
   port : {<<>>, <<3000>>},
   host : {"unset", "0.0.0.0"},
   endpoint : {"unset", "/explicit"},
   stateless : {"unset", "true", "false"}]
Args ==
  [transport : {"unset", "stdio", "http-stream"},
   port : {"unset", "4000"},
   host : {"unset", "127.0.0.1"},
   endpoint : {"unset", "/cli"},
   stateless : {"unset", "true", "false"}]
Env ==
  [transport : {"unset", "stdio", "httpStream"},
   port : {"unset", "5000"},
   host : {"unset", "example.org"},
   endpoint : {"unset", "/env"},
   stateless : {"unset", "true", "false"}]
NoOverrides ==
  [transportType |-> "unset", port |-> <<>>, host |-> "unset", endpoint |-> "unset",
   stateless |-> "unset"]
NoArgs ==
  [transport |-> "unset", port |-> "unset", host |-> "unset", endpoint |-> "unset",
   stateless |-> "unset"]
NoConfig ==
  [transportType |-> "none", port |-> 0, host |-> "none", endpoint |-> "none",
   stateless |-> FALSE]
NoRuntime ==
  [parsed |-> FALSE, overrides |-> NoOverrides, args |-> NoArgs, env |-> NoArgs,
   config |-> NoConfig]

\* Number.prototype.toString and parseInt on the port numbers in use
toString(n) ==
  CASE n = 3000 -> "3000" [] n = 4000 -> "4000" [] n = 5000 -> "5000" [] n = 8080 -> "8080"
parseInt(str) ==
  CASE str = "3000" -> 3000 [] str = "4000" -> 4000 [] str = "5000" -> 5000
    [] str = "8080" -> 8080

\* a || b || c || d on optional strings: the first that is given
or4(a, b, c, d) ==
  IF a # "unset" THEN a ELSE IF b # "unset" THEN b ELSE IF c # "unset" THEN c ELSE d

\* #parseRuntimeConfig(overrides) with process.argv and process.env as given
parseRuntimeConfig(ov, args, env) ==
  LET transportType ==
        or4(ov.transportType,
            IF args.transport = "http-stream" THEN "httpStream" ELSE args.transport,
            env.transport, "stdio")
  IN IF transportType = "httpStream"
       THEN [transportType |-> "httpStream",
             port |-> parseInt(or4(IF ov.port = <<>> THEN "unset" ELSE toString(ov.port[1]),
                                   args.port, env.port, "8080")),
             host |-> or4(ov.host, args.host, env.host, "localhost"),
             endpoint |-> or4(ov.endpoint, args.endpoint, env.endpoint, "/mcp"),
             stateless |-> \/ ov.stateless = "true"
                           \/ args.stateless = "true"
                           \/ env.stateless = "true"]
       ELSE [NoConfig EXCEPT !.transportType = "stdio"]

\* the roots lists a client can answer listRoots with
RootLists == { <<"file:///a">>, <<"file:///b">> }

VARIABLES
  mode,            \* transport binding chosen by start(): none/stdio/httpStream/stateless
  hasAuthenticate, \* options.authenticate is configured
  options,         \* the ping and roots entries of the server options
  transportTyped,  \* the HTTP transport objects carry type: "httpStream"
  runtime,         \* start(): the options, command line and environment it was given, and the configuration parsed from them
  registry,        \* FastMCP.#prompts, #resources, #resourcesTemplates
  reqs,            \* per session: the prompt, resource, completion and list requests handled so far
  http,            \* the last request #handleUnhandledRequest answered, and the answer
  tools,           \* FastMCP.#tools
  sessions,        \* FastMCP.#sessions
  events,          \* server events emitted so far: <<type, session, the session was in #sessions when the listeners ran>>
  conn,            \* per inbound connection / start() call: progress and outcome
  sess,            \* per session object: FastMCPSession private state
  calls            \* per session: the call-tool requests handled so far

vars == <<mode, hasAuthenticate, options, transportTyped, runtime, registry, reqs, http, tools, sessions, events, conn, sess, calls>>

\* ---- sequence helpers ----
Range(q) == {q[i] : i \in 1..Len(q)}
\* Array.prototype.indexOf: first index holding x, 0 when absent
indexOf(q, x) == IF x \in Range(q) THEN CHOOSE i \in 1..Len(q) : q[i] = x /\ \A j \in 1..(i-1) : q[j] # x ELSE 0
\* Array.prototype.splice(i, 1)
splice(q, i) == [j \in 1..(Len(q)-1) |-> IF j < i THEN q[j] ELSE q[j+1]]
Count(q, x) == Cardinality({i \in 1..Len(q) : q[i] = x})

\* ---- session construction ----
NoSession ==
  [created |-> FALSE, auth |-> "undef", tools |-> <<>>, toolHandlers |-> FALSE,
   transportType |-> "none", connectionState |-> "connecting",
   transportBound |-> FALSE, cpc |-> "none", attempt |-> 0,
   clientCapabilities |-> "none", connects |-> 0,
   readyEvents |-> 0, errorEvents |-> 0,
   rootsHandler |-> FALSE, roots |-> <<>>, rootsRequests |-> 0, fetching |-> 0,
   fetched |-> <<>>, rootsChanged |-> <<>>,
   pingInterval |-> 0, pingTimers |-> {}, pings |-> 0, pingLog |-> <<>>,
   waiter |-> "none", waiterBy |-> "none", waits |-> 0,
   loggingLevel |-> "info", setLevels |-> <<>>,
   prompts |-> <<>>, resourceTemplates |-> <<>>,
   promptHandlers |-> FALSE, resourceHandlers |-> FALSE, lists |-> <<>>,
   polls |-> 0, warnings |-> 0, closeCalled |-> FALSE,
   closeResult |-> "none", closeErrors |-> 0,
   pending |-> {}, initialFetch |-> 0, latest |-> <<0, <<>>, "none">>,
   capabilities |-> {}]

\* setupRootsHandlers: the notification handler is registered unless
\* rootsConfig.enabled === false
setupRootsHandlers == options.rootsEnabled # "false"

\* the constructor's this.#capabilities: logging always, the others when the
\* session was given entries of that kind
capabilitiesOf(tl) ==
  {"logging"} \cup (IF Len(tl) > 0 THEN {"tools"} ELSE {})
              \cup (IF Len(registry.resources) > 0 \/ Len(registry.resourcesTemplates) > 0
                      THEN {"resources"} ELSE {})
              \cup (IF Len(registry.prompts) > 0 THEN {"prompts"} ELSE {})

\* new FastMCPSession({auth, tools, transportType, ping, roots, ...})
newSession_toolHandlersAlways(auth, tl, tt) ==
  [NoSession EXCEPT !.created = TRUE, !.auth = auth, !.tools = tl,
                    !.toolHandlers = TRUE, !.transportType = tt,
                    !.capabilities = capabilitiesOf(tl),
                    !.rootsHandler = setupRootsHandlers,
                    !.prompts = registry.prompts,
                    !.promptHandlers = (Len(registry.prompts) > 0),
                    !.resourceTemplates = registry.resourcesTemplates,
                    !.resourceHandlers = (Len(registry.resources) > 0
                                          \/ Len(registry.resourcesTemplates) > 0)]
newSession(auth, tl, tt) ==
  [NoSession EXCEPT !.created = TRUE, !.auth = auth, !.tools = tl,
                    !.toolHandlers = (Len(tl) > 0), !.transportType = tt,
                    !.capabilities = capabilitiesOf(tl),
                    !.rootsHandler = setupRootsHandlers,
                    !.prompts = registry.prompts,
                    !.promptHandlers = (Len(registry.prompts) > 0),
                    !.resourceTemplates = registry.resourcesTemplates,
                    !.resourceHandlers = (Len(registry.resources) > 0
                                          \/ Len(registry.resourcesTemplates) > 0)]

\* #createSession: const allowedTools = auth ? tools.filter(...) : tools
allowedTools_noFilter(auth) == tools
allowedTools_filterAlways(auth) ==
  SelectSeq(tools, LAMBDA t : IF hasCanAccess(t) THEN canAccess(t, auth) ELSE TRUE)
allowedTools(auth) ==
  IF auth # "undef"
    THEN SelectSeq(tools, LAMBDA t : IF hasCanAccess(t) THEN canAccess(t, auth) ELSE TRUE)
    ELSE tools

createSession(auth) == newSession(auth, allowedTools(auth), "httpStream")

\* the session the stdio branch of start() builds: tools: this.#tools
\* (variant: the stdio branch filters the tools as #createSession does)
stdioSession_filtered(auth) == newSession(auth, allowedTools(auth), "stdio")
stdioSession(auth) == newSession(auth, tools, "stdio")

\* ---- FastMCPSession.connect ----
\* up to the first await: the guard passed, state reset, server.connect() called
connectBegin(r) ==
  [r EXCEPT !.connectionState = "connecting", !.transportBound = TRUE,
            !.cpc = "serverConnect", !.attempt = 0, !.polls = 0, !.connects = @ + 1,
            !.closeCalled = FALSE, !.closeResult = "none"]

\* "type" in transport && transport.type === "httpStream", for the transport
\* connect() was given: the stdio branch passes a StdioServerTransport
transportIsHttpStream(r) == r.transportType = "httpStream" /\ transportTyped

\* #getPingConfig(transport).enabled
pingEnabled(r) ==
  IF options.pingEnabled # "unset" THEN options.pingEnabled = "true"
                                   ELSE transportIsHttpStream(r)
\* #getPingConfig(transport).logLevel: pingConfig.logLevel || "debug"
pingLogLevel == IF options.pingLogLevel # "unset" THEN options.pingLogLevel ELSE "debug"

\* if (this.#clientCapabilities) { if (pingConfig.enabled) this.#pingInterval =
\* setInterval(...) }: the timer of this connect() is named by its number
startPing_always(r) ==
  [r EXCEPT !.pingInterval = r.connects, !.pingTimers = @ \cup {r.connects}]
startPing(r) ==
  IF r.clientCapabilities # "none" /\ pingEnabled(r)
    THEN [r EXCEPT !.pingInterval = r.connects, !.pingTimers = @ \cup {r.connects}]
    ELSE r

\* this.emit("ready") / this.emit("error", ...): the once() listeners of a
\* pending waitForReady() run
emitReady(r) ==
  [r EXCEPT !.readyEvents = @ + 1,
            !.waiter = IF @ = "pending" THEN "resolved" ELSE @,
            !.waiterBy = IF r.waiter = "pending" THEN "ready" ELSE @]
emitError(r) ==
  [r EXCEPT !.errorEvents = @ + 1,
            !.waiter = IF @ = "pending" THEN "rejected" ELSE @,
            !.waiterBy = IF r.waiter = "pending" THEN "error" ELSE @]

\* the end of the try block: the ping timer, then
\* this.#connectionState = "ready"; this.emit("ready")
markReady(r) ==
  emitReady([startPing(r) EXCEPT !.connectionState = "ready", !.cpc = "resolved"])

\* after the polling loop: fetch the roots when the client lists them, else finish
\* (without capabilities a warning is logged first)
afterPoll(r) ==
  IF r.clientCapabilities = "roots"
    THEN [r EXCEPT !.cpc = "roots", !.rootsRequests = @ + 1,
                   !.pending = @ \cup {r.rootsRequests + 1},
                   !.initialFetch = r.rootsRequests + 1]
    ELSE IF r.clientCapabilities = "none"
      THEN markReady([r EXCEPT !.warnings = @ + 1])
      ELSE markReady(r)

\* what await this.#server.listRoots() settles with: a list, or a rejection
RootResults ==
  {<<"ok", l>> : l \in RootLists} \cup {<<"MethodNotFound", <<>>>>, <<"Error", <<>>>>}

\* the listRoots() requests of a session are numbered in the order they were
\* issued (rootsRequests); pending holds the numbers of those still in flight,
\* latest the completed request that was issued last: its number, the list of
\* its response (<<>> for a rejection) and who had issued it
arrive(r, k, res, by) ==
  [r EXCEPT !.pending = @ \ {k},
            !.latest = IF k > r.latest[1]
                         THEN <<k, IF res[1] = "ok" THEN res[2] ELSE <<>>, by>>
                         ELSE @]
\* the requests in flight that the RootsListChanged handler issued
handlerPending(r) == r.pending \ (IF r.cpc = "roots" THEN {r.initialFetch} ELSE {})

\* connect(): this.#roots = roots?.roots || []; a rejection is only logged
initialRoots(r, res) == IF res[1] = "ok" THEN [r EXCEPT !.roots = res[2]] ELSE r

\* the RootsListChanged handler's .then(): this.#roots = roots.roots;
\* this.emit("rootsChanged", {roots}); its .catch() only logs
rootsFetched_merge(r, res) ==
  IF res[1] = "ok"
    THEN [r EXCEPT !.roots = @ \o res[2], !.rootsChanged = Append(@, res[2]),
                   !.fetching = @ - 1, !.fetched = Append(@, res)]
    ELSE [r EXCEPT !.fetching = @ - 1, !.fetched = Append(@, res)]
rootsFetched(r, res) ==
  IF res[1] = "ok"
    THEN [r EXCEPT !.roots = res[2], !.rootsChanged = Append(@, res[2]),
                   !.fetching = @ - 1, !.fetched = Append(@, res)]
    ELSE [r EXCEPT !.fetching = @ - 1, !.fetched = Append(@, res)]

\* the catch block of the setInterval callback: logger.debug for "debug",
\* logger.warn for "warning", logger.error for "error", logger.info otherwise;
\* the entry is named by the severity of the logger method
pingLogged ==
  IF pingLogLevel \in {"debug", "warning", "error"} THEN pingLogLevel ELSE "info"
pingFailed(r) ==
  [r EXCEPT !.pings = @ + 1, !.pingLog = Append(@, pingLogged)]

\* one pass of while (attempt++ < maxAttempts); caps is what
\* this.#server.getClientCapabilities() returns in this pass ("none": undefined)
\* polls counts the calls of getClientCapabilities() in this connect()
pollOnce_givesUp(r, caps) ==
  IF r.attempt < maxAttempts
    THEN IF caps # "none"
           THEN afterPoll([r EXCEPT !.attempt = @ + 1, !.polls = @ + 1,
                                    !.clientCapabilities = caps])
           ELSE [r EXCEPT !.attempt = @ + 1, !.polls = @ + 1, !.cpc = "poll"]
    ELSE emitError([r EXCEPT !.attempt = @ + 1, !.connectionState = "error",
                             !.cpc = "rejected"])
pollOnce(r, caps) ==
  IF r.attempt < maxAttempts
    THEN IF caps # "none"
           THEN afterPoll([r EXCEPT !.attempt = @ + 1, !.polls = @ + 1,
                                    !.clientCapabilities = caps])
           ELSE [r EXCEPT !.attempt = @ + 1, !.polls = @ + 1, !.cpc = "poll"]
    ELSE afterPoll([r EXCEPT !.attempt = @ + 1])

\* catch (error): state "error", emit "error", rethrow
connectFailed(r) ==
  emitError([r EXCEPT !.connectionState = "error", !.cpc = "rejected"])

connectInFlight(r) == r.cpc \in {"serverConnect", "poll", "roots"}

\* ---- FastMCPSession.close ----
\* this.#connectionState = "closed"; clearInterval(this.#pingInterval);
\* await this.#server.close() drops the transport; closeCalled says that close()
\* ran since the latest connect() began, closeResult how its promise settled
close(r) ==
  [r EXCEPT !.connectionState = "closed", !.transportBound = FALSE,
            !.pingTimers = @ \ {r.pingInterval}, !.closeCalled = TRUE,
            !.closeResult = "resolved"]

\* close() when await this.#server.close() rejects: the catch block logs
\* "could not close server" and close() returns normally; the transport has been
\* dropped or not (dropped), as the failing transport left it
closeFailed(r, dropped) ==
  [r EXCEPT !.connectionState = "closed",
            !.transportBound = IF dropped THEN FALSE ELSE @,
            !.pingTimers = @ \ {r.pingInterval}, !.closeCalled = TRUE,
            !.closeResult = "resolved", !.closeErrors = @ + 1]

\* ---- setupLoggingHandlers ----
\* the SetLevelRequestSchema handler: this.#loggingLevel = request.params.level;
\* setLevels is the history of the levels this session was asked for
setLevel_keepsFirst(r, level) ==
  [r EXCEPT !.loggingLevel = IF r.setLevels = <<>> THEN level ELSE @,
            !.setLevels = Append(@, level)]
setLevel(r, level) ==
  [r EXCEPT !.loggingLevel = level, !.setLevels = Append(@, level)]

\* waitForReady() up to its return
waitForReady_noFailFast(r) ==
  IF r.connectionState = "ready"
    THEN [r EXCEPT !.waits = @ + 1, !.waiter = "resolved", !.waiterBy = "immediate"]
    ELSE [r EXCEPT !.waits = @ + 1, !.waiter = "pending", !.waiterBy = "none"]
waitForReady(r) ==
  IF r.connectionState = "ready"
    THEN [r EXCEPT !.waits = @ + 1, !.waiter = "resolved", !.waiterBy = "immediate"]
    ELSE IF r.connectionState \in {"error", "closed"}
      THEN [r EXCEPT !.waits = @ + 1, !.waiter = "rejected", !.waiterBy = "immediate"]
      ELSE [r EXCEPT !.waits = @ + 1, !.waiter = "pending", !.waiterBy = "none"]

\* the setTimeout(..., 5000) callback of waitForReady()
waitTimedOut(r) == [r EXCEPT !.waiter = "rejected", !.waiterBy = "timeout"]

TypeOK ==
  /\ mode \in {"none", "stdio", "httpStream", "stateless"}
  /\ hasAuthenticate \in BOOLEAN
  /\ Range(tools) \subseteq ToolNames
  /\ Range(sessions) \subseteq Conns
  /\ \A s \in Conns : sess[s].connectionState \in {"connecting", "ready", "error", "closed"}

NoConn ==
  [pc |-> "idle", request |-> NoRequest, authCalls |-> 0, authRequest |-> NoRequest,
   thrown |-> "none", rejection |-> "none", errorLogs |-> 0,
   onConnectCalled |-> FALSE, onCloseCalled |-> FALSE, errorListener |-> FALSE,
   oncloseHooked |-> FALSE, resolved |-> "none"]

InitState ==
  /\ mode = "none"
  /\ hasAuthenticate \in BOOLEAN
  /\ tools \in Registries
  /\ sessions = <<>>
  /\ events = <<>>
  /\ conn = [c \in Conns |-> NoConn]
  /\ sess = [s \in Conns |-> NoSession]
  /\ calls = [s \in Conns |-> <<>>]
  /\ reqs = [s \in Conns |-> <<>>]
  /\ registry = TestRegistry
  /\ runtime = NoRuntime
  /\ http = NoHttp

\* a server built with the default ping and roots options, on a transport layer
\* whose transports carry their type
Init == InitState /\ options = DefaultOptions /\ transportTyped = TRUE

\* a server built with any ping and roots options, on either transport layer
InitConfigured == InitState /\ options \in Options /\ transportTyped \in BOOLEAN

\* ---- FastMCP.#removeSession ----
\* this.emit(type, {session}): the listeners run now and see the list as it is
emit(type, s, list) == Append(events, <<type, s, s \in Range(list)>>)

removeSession_noGuard(s) ==
  /\ sessions' = (IF indexOf(sessions, s) # 0 THEN splice(sessions, indexOf(sessions, s)) ELSE sessions)
  /\ events' = emit("disconnect", s, sessions')
removeSession(s) ==
  IF indexOf(sessions, s) # 0
    THEN /\ sessions' = splice(sessions, indexOf(sessions, s))
         /\ events' = emit("disconnect", s, sessions')
    ELSE UNCHANGED <<sessions, events>>

\* ---- the callbacks start() hands to startHTTPServer ----
\* session mode, onConnect: this.#sessions.push(session); emit("connect")
onConnectSession_emitFirst(s) ==
  /\ events' = emit("connect", s, sessions)
  /\ sessions' = Append(sessions, s)
onConnectSession(s) ==
  /\ sessions' = Append(sessions, s)
  /\ events' = emit("connect", s, sessions')
\* stateless mode, onConnect: a debug log only
onConnectStateless_tracks(s) ==
  /\ sessions' = Append(sessions, s)
  /\ events' = emit("connect", s, sessions')
onConnectStateless(s) ==
  UNCHANGED <<sessions, events>>
\* session mode, onClose: splice when found; emit("disconnect")
onCloseSession_noSplice(s) ==
  /\ sessions' = sessions
  /\ events' = emit("disconnect", s, sessions')
onCloseSession(s) ==
  /\ sessions' = (IF indexOf(sessions, s) # 0 THEN splice(sessions, indexOf(sessions, s)) ELSE sessions)
  /\ events' = emit("disconnect", s, sessions')
\* stateless mode, onClose: empty
onCloseStateless(s) ==
  UNCHANGED <<sessions, events>>

\* the lowest connection slot not yet used
nextConn(c) == conn[c].pc = "idle" /\ \A d \in Conns : d < c => conn[d].pc # "idle"

\* host code holds a reference to the session (server.sessions, "connect" event)
published(s) ==
  \/ conn[s].pc = "done"
  \/ mode = "httpStream" /\ conn[s].onConnectCalled

\* ---- FastMCP.addTool / addPrompt / addResource / addResourceTemplate ----
\* this.#tools.push(tool), before start()
AddTool(name) ==
  /\ mode = "none"
  /\ Len(tools) < MaxEntries
  /\ tools' = Append(tools, name)
  /\ UNCHANGED <<mode, hasAuthenticate, options, transportTyped, runtime, registry, reqs, http, sessions, events, conn, sess, calls>>

\* this.#prompts.push(prompt)
AddPrompt(name) ==
  /\ mode = "none"
  /\ Len(registry.prompts) < MaxEntries
  /\ registry' = [registry EXCEPT !.prompts = Append(@, name)]
  /\ UNCHANGED <<mode, hasAuthenticate, options, transportTyped, runtime, reqs, http, tools, sessions, events, conn, sess, calls>>

\* this.#resources.push(resource)
AddResource(uri) ==
  /\ mode = "none"
  /\ Len(registry.resources) < MaxEntries
  /\ registry' = [registry EXCEPT !.resources = Append(@, uri)]
  /\ UNCHANGED <<mode, hasAuthenticate, options, transportTyped, runtime, reqs, http, tools, sessions, events, conn, sess, calls>>

\* this.#resourcesTemplates.push(resource)
AddResourceTemplate(tpl) ==
  /\ mode = "none"
  /\ Len(registry.resourcesTemplates) < MaxEntries
  /\ registry' = [registry EXCEPT !.resourcesTemplates = Append(@, tpl)]
  /\ UNCHANGED <<mode, hasAuthenticate, options, transportTyped, runtime, reqs, http, tools, sessions, events, conn, sess, calls>>

\* ---- FastMCP.#handleUnhandledRequest ----
\* healthConfig.enabled === undefined ? true : healthConfig.enabled
healthEnabled == options.healthEnabled # "false"
\* healthConfig.path ?? "/health"
healthPath == IF options.healthPath = "unset" THEN "/health" ELSE options.healthPath

\* this.#sessions.filter((s) => s.isReady).length
readySessions == Len(SelectSeq(sessions, LAMBDA s : sess[s].connectionState = "ready"))
totalSessions == Len(sessions)

\* the /ready branch: the stateless answer, or the counts of the tracked sessions
readyResponse_emptyIsReady(isStateless) ==
  IF isStateless
    THEN [status |-> 200,
          body |-> [NoBody EXCEPT !.kind = "json", !.mode = "stateless", !.ready = 1,
                                  !.status = "ready", !.total = 1]]
    ELSE LET allReady == readySessions = totalSessions
         IN [status |-> IF allReady THEN 200 ELSE 503,
             body |-> [NoBody EXCEPT !.kind = "json", !.ready = readySessions,
                         !.status = IF allReady THEN "ready"
                                    ELSE IF totalSessions = 0 THEN "no_sessions"
                                    ELSE "initializing",
                         !.total = totalSessions]]
readyResponse(isStateless) ==
  IF isStateless
    THEN [status |-> 200,
          body |-> [NoBody EXCEPT !.kind = "json", !.mode = "stateless", !.ready = 1,
                                  !.status = "ready", !.total = 1]]
    ELSE LET allReady == readySessions = totalSessions /\ totalSessions > 0
         IN [status |-> IF allReady THEN 200 ELSE 503,
             body |-> [NoBody EXCEPT !.kind = "json", !.ready = readySessions,
                         !.status = IF allReady THEN "ready"
                                    ELSE IF totalSessions = 0 THEN "no_sessions"
                                    ELSE "initializing",
                         !.total = totalSessions]]

\* the endpoints in the order the handler tries them; no OAuth metadata is
\* configured, so every other request gets the bare 404
handleUnhandledRequest_readyUngated(method, path, isStateless) ==
  IF healthEnabled /\ method = "GET" /\ path = healthPath
    THEN [status |-> 200, body |-> [NoBody EXCEPT !.kind = "text", !.text = "Ok"]]
    ELSE IF method = "GET" /\ path = "/ready"
      THEN readyResponse(isStateless)
      ELSE [status |-> 404, body |-> NoBody]
handleUnhandledRequest(method, path, isStateless) ==
  IF healthEnabled /\ method = "GET" /\ path = healthPath
    THEN [status |-> 200, body |-> [NoBody EXCEPT !.kind = "text", !.text = "Ok"]]
    ELSE IF healthEnabled /\ method = "GET" /\ path = "/ready"
      THEN readyResponse(isStateless)
      ELSE [status |-> 404, body |-> NoBody]

\* an HTTP request that is not for the MCP endpoint arrives
HttpUnhandled(method, path) ==
  /\ mode \in {"httpStream", "stateless"}
  /\ http.n < MaxHttp
  /\ LET r == handleUnhandledRequest(method, path, mode = "stateless")
     IN http' = [n |-> http.n + 1, method |-> method, path |-> path,
                 status |-> r.status, body |-> r.body]
  /\ UNCHANGED <<mode, hasAuthenticate, options, transportTyped, runtime, registry, reqs, tools, sessions, events, conn, sess, calls>>

\* ---- FastMCP.start ----
\* start({transportType: "httpStream", httpStream: {stateless}})
StartHttp(st) ==
  /\ mode = "none"
  /\ mode' = (IF st THEN "stateless" ELSE "httpStream")
  /\ UNCHANGED <<hasAuthenticate, options, transportTyped, runtime, registry, reqs, http, tools, sessions, events, conn, sess, calls>>

\* start({transportType: "stdio"}) up to its first await
StartStdio(c) ==
  /\ mode \in {"none", "stdio"}
  /\ nextConn(c)
  /\ mode' = "stdio"
  /\ IF hasAuthenticate
       THEN /\ conn' = [conn EXCEPT ![c].pc = "auth", ![c].authCalls = @ + 1,
                                    ![c].authRequest = NoRequest]
            /\ sess' = sess
       ELSE /\ conn' = [conn EXCEPT ![c].pc = "connecting"]
            /\ sess' = [sess EXCEPT ![c] = connectBegin(stdioSession("undef"))]
  /\ UNCHANGED <<hasAuthenticate, options, transportTyped, runtime, registry, reqs, http, tools, sessions, events, calls>>

\* start(options) with nothing fixed in advance: the configuration is parsed
\* from the options, the command line and the environment, and the branch of
\* that transport runs up to its first await
StartConfigured ==
  /\ mode = "none"
  /\ ~runtime.parsed
  /\ LET config == parseRuntimeConfig(runtime.overrides, runtime.args, runtime.env)
     IN /\ runtime' = [runtime EXCEPT !.parsed = TRUE, !.config = config]
        /\ IF config.transportType = "stdio"
             THEN /\ mode' = "stdio"
                  /\ IF hasAuthenticate
                       THEN /\ conn' = [conn EXCEPT ![1].pc = "auth", ![1].authCalls = @ + 1,
                                                    ![1].authRequest = NoRequest]
                            /\ sess' = sess
                       ELSE /\ conn' = [conn EXCEPT ![1].pc = "connecting"]
                            /\ sess' = [sess EXCEPT ![1] = connectBegin(stdioSession("undef"))]
             ELSE /\ mode' = (IF config.stateless THEN "stateless" ELSE "httpStream")
                  /\ UNCHANGED <<conn, sess>>
  /\ UNCHANGED <<hasAuthenticate, options, transportTyped, registry, reqs, http, tools, sessions, events, calls>>

\* auth = await this.#authenticate(undefined) resolved
StdioAuthResolve(c, a) ==
  /\ mode = "stdio"
  /\ conn[c].pc = "auth"
  /\ conn' = [conn EXCEPT ![c].pc = "connecting", ![c].resolved = a]
  /\ sess' = [sess EXCEPT ![c] = connectBegin(stdioSession(a))]
  /\ UNCHANGED <<mode, hasAuthenticate, options, transportTyped, runtime, registry, reqs, http, tools, sessions, events, calls>>

\* the hook threw: logger.error(...), continue without auth
StdioAuthReject_rethrow(c, v) ==
  /\ mode = "stdio"
  /\ conn[c].pc = "auth"
  /\ conn' = [conn EXCEPT ![c].pc = "failed", ![c].thrown = v, ![c].rejection = v]
  /\ UNCHANGED <<mode, hasAuthenticate, options, transportTyped, runtime, registry, reqs, http, tools, sessions, events, sess, calls>>
StdioAuthReject(c, v) ==
  /\ mode = "stdio"
  /\ conn[c].pc = "auth"
  /\ conn' = [conn EXCEPT ![c].pc = "connecting", ![c].thrown = v, ![c].errorLogs = @ + 1]
  /\ sess' = [sess EXCEPT ![c] = connectBegin(stdioSession("undef"))]
  /\ UNCHANGED <<mode, hasAuthenticate, options, transportTyped, runtime, registry, reqs, http, tools, sessions, events, calls>>

\* await session.connect(transport) resolved: push, listeners, emit("connect")
StartStdioFinish(c) ==
  /\ mode = "stdio"
  /\ conn[c].pc = "connecting"
  /\ sess[c].cpc = "resolved"
  /\ sessions' = Append(sessions, c)
  /\ events' = emit("connect", c, sessions')
  /\ conn' = [conn EXCEPT ![c].pc = "done", ![c].errorListener = TRUE,
                          ![c].oncloseHooked = sess[c].transportBound]
  /\ UNCHANGED <<mode, hasAuthenticate, options, transportTyped, runtime, registry, reqs, http, tools, sess, calls>>

\* await session.connect(transport) rejected: start() rejects
StartStdioFail(c) ==
  /\ mode = "stdio"
  /\ conn[c].pc = "connecting"
  /\ sess[c].cpc = "rejected"
  /\ conn' = [conn EXCEPT ![c].pc = "failed", ![c].rejection = "connect"]
  /\ UNCHANGED <<mode, hasAuthenticate, options, transportTyped, runtime, registry, reqs, http, tools, sessions, events, sess, calls>>

\* ---- createServer (both HTTP modes) ----
\* an inbound connection: createServer(request) up to its first await
HttpRequest(c) ==
  /\ mode \in {"httpStream", "stateless"}
  /\ nextConn(c)
  /\ IF hasAuthenticate
       THEN /\ conn' = [conn EXCEPT ![c].pc = "auth", ![c].request = "http",
                                    ![c].authCalls = @ + 1, ![c].authRequest = "http"]
            /\ sess' = sess
       ELSE /\ conn' = [conn EXCEPT ![c].pc = "created", ![c].request = "http"]
            /\ sess' = [sess EXCEPT ![c] = createSession("undef")]
  /\ UNCHANGED <<mode, hasAuthenticate, options, transportTyped, runtime, registry, reqs, http, tools, sessions, events, calls>>

\* auth = await this.#authenticate(request) resolved: return this.#createSession(auth)
HttpAuthResolve(c, a) ==
  /\ mode \in {"httpStream", "stateless"}
  /\ conn[c].pc = "auth"
  /\ conn' = [conn EXCEPT ![c].pc = "created", ![c].resolved = a]
  /\ sess' = [sess EXCEPT ![c] = createSession(a)]
  /\ UNCHANGED <<mode, hasAuthenticate, options, transportTyped, runtime, registry, reqs, http, tools, sessions, events, calls>>

\* the hook threw: createServer rejects with the thrown value
HttpAuthReject_swallow(c, v) ==
  /\ mode \in {"httpStream", "stateless"}
  /\ conn[c].pc = "auth"
  /\ conn' = [conn EXCEPT ![c].pc = "created", ![c].thrown = v, ![c].errorLogs = @ + 1]
  /\ sess' = [sess EXCEPT ![c] = createSession("undef")]
  /\ UNCHANGED <<mode, hasAuthenticate, options, transportTyped, runtime, registry, reqs, http, tools, sessions, events, calls>>
HttpAuthReject(c, v) ==
  /\ mode \in {"httpStream", "stateless"}
  /\ conn[c].pc = "auth"
  /\ conn' = [conn EXCEPT ![c].pc = "rejected", ![c].thrown = v, ![c].rejection = v]
  /\ UNCHANGED <<mode, hasAuthenticate, options, transportTyped, runtime, registry, reqs, http, tools, sessions, events, sess, calls>>

\* createServer resolved: the transport layer calls session.connect(transport),
\* which runs up to its first await, and then onConnect(session)
HttpOnConnect(c) ==
  /\ conn[c].pc = "created"
  /\ ~conn[c].onConnectCalled
  /\ sess' = [sess EXCEPT ![c] = connectBegin(sess[c])]
  /\ IF mode = "stateless" THEN onConnectStateless(c) ELSE onConnectSession(c)
  /\ conn' = [conn EXCEPT ![c].onConnectCalled = TRUE]
  /\ UNCHANGED <<mode, hasAuthenticate, options, transportTyped, runtime, registry, reqs, http, tools, calls>>

\* the transport of a connected session closed: the transport layer calls
\* onClose(session) and then session.close()
HttpOnClose(c) ==
  /\ conn[c].pc = "created"
  /\ conn[c].onConnectCalled
  /\ ~conn[c].onCloseCalled
  /\ IF mode = "stateless" THEN onCloseStateless(c) ELSE onCloseSession(c)
  /\ conn' = [conn EXCEPT ![c].onCloseCalled = TRUE]
  /\ sess' = [sess EXCEPT ![c] = close(sess[c])]
  /\ UNCHANGED <<mode, hasAuthenticate, options, transportTyped, runtime, registry, reqs, http, tools, calls>>

\* ---- the rest of FastMCPSession.connect, one action per resumption ----
\* await this.#server.connect(transport) resolved; first pass of the polling loop
ServerConnectOk(s, caps) ==
  /\ sess[s].cpc = "serverConnect"
  /\ sess' = [sess EXCEPT ![s] = pollOnce(sess[s], caps)]
  /\ UNCHANGED <<mode, hasAuthenticate, options, transportTyped, runtime, registry, reqs, http, tools, sessions, events, conn, calls>>

\* await this.#server.connect(transport) rejected: the catch block; the server's
\* once("error") listener of the stdio branch removes the session
ServerConnectFail(s) ==
  /\ sess[s].cpc = "serverConnect"
  /\ sess' = [sess EXCEPT ![s] = connectFailed(sess[s])]
  /\ IF conn[s].errorListener
       THEN /\ removeSession(s)
            /\ conn' = [conn EXCEPT ![s].errorListener = FALSE]
       ELSE UNCHANGED <<sessions, events, conn>>
  /\ UNCHANGED <<mode, hasAuthenticate, options, transportTyped, runtime, registry, reqs, http, tools, calls>>

\* await delay(retryDelay) elapsed; next pass of the polling loop
PollWake(s, caps) ==
  /\ sess[s].cpc = "poll"
  /\ sess' = [sess EXCEPT ![s] = pollOnce(sess[s], caps)]
  /\ UNCHANGED <<mode, hasAuthenticate, options, transportTyped, runtime, registry, reqs, http, tools, sessions, events, conn, calls>>

\* await this.#server.listRoots() settled either way; both ways continue
\* (variant: a rejection other than MethodNotFound reaches the outer catch block)
RootsSettle_fatal(s, res) ==
  /\ sess[s].cpc = "roots"
  /\ res[1] = "ok" => sess[s].transportBound
  /\ sess' = [sess EXCEPT ![s] =
       arrive(IF res[1] = "Error" THEN connectFailed(sess[s])
                                  ELSE markReady(initialRoots(sess[s], res)),
              sess[s].initialFetch, res, "connect")]
  /\ UNCHANGED <<mode, hasAuthenticate, options, transportTyped, runtime, registry, reqs, http, tools, sessions, events, conn, calls>>
RootsSettle(s, res) ==
  /\ sess[s].cpc = "roots"
  /\ res[1] = "ok" => sess[s].transportBound
  /\ sess' = [sess EXCEPT ![s] =
       arrive(markReady(initialRoots(sess[s], res)), sess[s].initialFetch, res, "connect")]
  /\ UNCHANGED <<mode, hasAuthenticate, options, transportTyped, runtime, registry, reqs, http, tools, sessions, events, conn, calls>>

\* the stdio transport's onclose fires: the hook start() installed, then the
\* protocol engine drops the transport
transportClosed(s) ==
  /\ IF conn[s].oncloseHooked THEN removeSession(s) ELSE UNCHANGED <<sessions, events>>
  /\ conn' = [conn EXCEPT ![s].oncloseHooked = FALSE]

\* host code calls session.close(); on the HTTP transports the first close is
\* HttpOnClose
SessionClose(s) ==
  /\ sess[s].created
  /\ published(s)
  /\ sess' = [sess EXCEPT ![s] = close(sess[s])]
  /\ IF mode = "stdio"
       THEN IF sess[s].transportBound THEN transportClosed(s) ELSE UNCHANGED <<sessions, events, conn>>
       ELSE conn[s].onCloseCalled /\ UNCHANGED <<sessions, events, conn>>
  /\ UNCHANGED <<mode, hasAuthenticate, options, transportTyped, runtime, registry, reqs, http, tools, calls>>

\* host code calls session.close() on a session with a transport, and closing
\* the transport fails
SessionCloseFail(s, dropped) ==
  /\ sess[s].created
  /\ published(s)
  /\ sess[s].transportBound
  /\ sess[s].closeErrors < MaxCloseErrors
  /\ sess' = [sess EXCEPT ![s] = closeFailed(sess[s], dropped)]
  /\ IF mode = "stdio"
       THEN IF dropped THEN transportClosed(s) ELSE UNCHANGED <<sessions, events, conn>>
       ELSE conn[s].onCloseCalled /\ UNCHANGED <<sessions, events, conn>>
  /\ UNCHANGED <<mode, hasAuthenticate, options, transportTyped, runtime, registry, reqs, http, tools, calls>>

\* the peer closes the stdio transport (stdin ends)
TransportClose(s) ==
  /\ mode = "stdio"
  /\ sess[s].transportBound
  /\ sess' = [sess EXCEPT ![s].transportBound = FALSE]
  /\ transportClosed(s)
  /\ UNCHANGED <<mode, hasAuthenticate, options, transportTyped, runtime, registry, reqs, http, tools, calls>>

\* host code calls session.connect(transport) again; with a transport still bound
\* connect() throws before it touches the state
SessionConnect(s) ==
  /\ sess[s].created
  /\ published(s)
  /\ ~sess[s].transportBound
  /\ ~connectInFlight(sess[s])
  /\ sess[s].connects < MaxConnects
  /\ sess' = [sess EXCEPT ![s] = connectBegin(sess[s])]
  /\ UNCHANGED <<mode, hasAuthenticate, options, transportTyped, runtime, registry, reqs, http, tools, sessions, events, conn, calls>>

\* ---- roots, keep-alive pings, waitForReady ----
\* the client sends notifications/roots/list_changed: the handler calls listRoots()
RootsListChanged(s) ==
  /\ sess[s].created
  /\ sess[s].rootsHandler
  /\ sess[s].transportBound
  /\ sess[s].fetching + Len(sess[s].fetched) < MaxRootsChanges
  /\ sess' = [sess EXCEPT ![s].fetching = @ + 1, ![s].rootsRequests = @ + 1,
                          ![s].pending = @ \cup {sess[s].rootsRequests + 1}]
  /\ UNCHANGED <<mode, hasAuthenticate, options, transportTyped, runtime, registry, reqs, http, tools, sessions, events, conn, calls>>

\* the response to request k, a listRoots() of the handler, arrives
RootsFetchArrive(s, k, res) ==
  /\ k \in handlerPending(sess[s])
  /\ res[1] = "ok" => sess[s].transportBound
  /\ sess' = [sess EXCEPT ![s] = arrive(rootsFetched(sess[s], res), k, res, "handler")]
  /\ UNCHANGED <<mode, hasAuthenticate, options, transportTyped, runtime, registry, reqs, http, tools, sessions, events, conn, calls>>

\* a listRoots() of the handler settles, the responses arriving in the order of
\* the requests
RootsFetchSettle(s, res) ==
  /\ sess[s].fetching > 0
  /\ res[1] = "ok" => sess[s].transportBound
  /\ LET k == CHOOSE k \in handlerPending(sess[s]) :
                 \A j \in handlerPending(sess[s]) : k <= j
     IN sess' = [sess EXCEPT ![s] = arrive(rootsFetched(sess[s], res), k, res, "handler")]
  /\ UNCHANGED <<mode, hasAuthenticate, options, transportTyped, runtime, registry, reqs, http, tools, sessions, events, conn, calls>>

\* a live ping timer fires and the client answers
PingOk(s) ==
  /\ sess[s].pingTimers # {}
  /\ sess[s].transportBound
  /\ sess[s].pings < MaxPings
  /\ sess' = [sess EXCEPT ![s].pings = @ + 1]
  /\ UNCHANGED <<mode, hasAuthenticate, options, transportTyped, runtime, registry, reqs, http, tools, sessions, events, conn, calls>>

\* a live ping timer fires and await this.#server.ping() rejects
PingFail(s) ==
  /\ sess[s].pingTimers # {}
  /\ sess[s].pings < MaxPings
  /\ sess' = [sess EXCEPT ![s] = pingFailed(sess[s])]
  /\ UNCHANGED <<mode, hasAuthenticate, options, transportTyped, runtime, registry, reqs, http, tools, sessions, events, conn, calls>>

\* host code calls session.waitForReady()
WaitForReady(s) ==
  /\ sess[s].created
  /\ published(s)
  /\ sess[s].waiter # "pending"
  /\ sess[s].waits < MaxWaits
  /\ sess' = [sess EXCEPT ![s] = waitForReady(sess[s])]
  /\ UNCHANGED <<mode, hasAuthenticate, options, transportTyped, runtime, registry, reqs, http, tools, sessions, events, conn, calls>>

\* five seconds passed with the waiter still pending
WaitTimeout(s) ==
  /\ sess[s].waiter = "pending"
  /\ sess' = [sess EXCEPT ![s] = waitTimedOut(sess[s])]
  /\ UNCHANGED <<mode, hasAuthenticate, options, transportTyped, runtime, registry, reqs, http, tools, sessions, events, conn, calls>>

\* a logging/setLevel request reaches the session
SetLevel(s, level) ==
  /\ sess[s].created
  /\ sess[s].transportBound
  /\ Len(sess[s].setLevels) < MaxSetLevels
  /\ sess' = [sess EXCEPT ![s] = setLevel(@, level)]
  /\ UNCHANGED <<mode, hasAuthenticate, options, transportTyped, runtime, registry, reqs, http, tools, sessions, events, conn, calls>>

\* ---- the CallToolRequestSchema handler ----
\* content items {type, text}; an image item keeps its payload in text
textItem(t) == [type |-> "text", text |-> t]
\* what a tool's execute can return: nothing, the string "hello", one content
\* item, an object of the envelope shape, an object of another shape
Returned == {"undefined", "string", "item", "envelope", "malformed"}
theString == "hello"
theItem == [type |-> "image", text |-> "iVBORw0KGgo"]
theEnvelope == <<textItem("first"), theItem>>
\* how execute settles: returning, or throwing a UserError or another error
Settles == {"returns", "UserError", "Error"}

\* one call-tool request: the handler's position, the execute promise, the
\* timeout timer, the response, and the messages handed to the client (the
\* k-th notification as k, the final response as 0)
NoCall ==
  [name |-> "none", argsOk |-> TRUE, executed |-> FALSE, running |-> FALSE,
   how |-> "none", value |-> "none", phase |-> "done", timer |-> "none",
   outcome |-> "pending", content |-> <<>>, responses |-> 0,
   issued |-> 0, buffer |-> <<>>, wire |-> <<>>, session |-> "none",
   unhandled |-> 0]

\* throw new McpError(code, ...): the protocol engine answers with the error
protocolError(name, argsOk, code) ==
  [NoCall EXCEPT !.name = name, !.argsOk = argsOk, !.outcome = code,
                 !.responses = 1, !.wire = <<0>>]

\* tool.execute(args, ...) called; with timeoutMs the timer of the race is armed;
\* callTool adds the session: this.#auth entry of the execution context
startCall(name, argsOk) ==
  [NoCall EXCEPT !.name = name, !.argsOk = argsOk, !.executed = TRUE,
                 !.running = TRUE, !.phase = "race",
                 !.timer = IF hasTimeoutMs(name) THEN "armed" ELSE "none"]

\* what the handler has done by its first suspension on tool.execute: looked the
\* tool up among the session's tools, validated the arguments, called execute
callTool_noValidate(s, name, argsOk) ==
  IF name \notin Range(sess[s].tools)
    THEN protocolError(name, argsOk, "MethodNotFound")
    ELSE [startCall(name, argsOk) EXCEPT !.session = sess[s].auth]
callTool(s, name, argsOk) ==
  IF name \notin Range(sess[s].tools)
    THEN protocolError(name, argsOk, "MethodNotFound")
    ELSE IF hasParameters(name) /\ ~argsOk
      THEN protocolError(name, argsOk, "InvalidParams")
      ELSE [startCall(name, argsOk) EXCEPT !.session = sess[s].auth]

\* the transport hands its buffered notifications to the client when the
\* event loop turns
flush(e) == [e EXCEPT !.wire = @ \o e.buffer, !.buffer = <<>>]

\* return result: the handler's one response
respond(e, items, isError) ==
  [e EXCEPT !.phase = "done", !.content = items, !.responses = @ + 1,
            !.outcome = IF isError THEN "isError" ELSE "result",
            !.wire = Append(@, 0)]

\* the catch block: a UserError gives its message, anything else
\* "Tool '<name>' execution failed: <message>"
errorItems(how) ==
  IF how = "UserError" THEN <<textItem("user message")>>
                       ELSE <<textItem("execution failed")>>

\* reportProgress / streamContent: this.#server.notification(...); a transport
\* that buffers outbound writes holds it until the event loop turns
notify(e, buffered) ==
  IF buffered
    THEN [e EXCEPT !.issued = @ + 1, !.buffer = Append(@, e.issued + 1)]
    ELSE [e EXCEPT !.issued = @ + 1, !.wire = Append(@, e.issued + 1)]

\* executeToolPromise.finally(() => clearTimeout(timeoutId)) is called only for a
\* tool with timeoutMs and its result is dropped: when execute rejects, the
\* promise finally() returned rejects with the same reason and has no handler
\* (the count of such promises)
finallyRejects(e, how) == IF e.timer # "none" /\ how # "returns" THEN 1 ELSE 0

\* the execute promise settles.  While the handler awaits it: finally() clears
\* the timer, a returned value leads to await delay(1), a thrown one to the
\* catch block.  After the timer won the race nothing awaits it any more.
executeSettled_secondResponse(e, how, v) ==
  IF e.phase = "race"
    THEN LET c == [e EXCEPT !.running = FALSE, !.how = how, !.value = v,
                            !.timer = IF @ = "armed" THEN "cleared" ELSE @,
                            !.unhandled = @ + finallyRejects(e, how)]
         IN IF how = "returns" THEN [c EXCEPT !.phase = "delay"]
                               ELSE respond(c, errorItems(how), TRUE)
    ELSE respond([e EXCEPT !.running = FALSE, !.how = how, !.value = v,
                           !.unhandled = @ + finallyRejects(e, how)],
                 errorItems(how), how # "returns")
executeSettled_rethrows(e, how, v) ==
  IF e.phase = "race"
    THEN LET c == [e EXCEPT !.running = FALSE, !.how = how, !.value = v,
                            !.timer = IF @ = "armed" THEN "cleared" ELSE @,
                            !.unhandled = @ + finallyRejects(e, how)]
         IN IF how = "returns" THEN [c EXCEPT !.phase = "delay"]
            ELSE IF how = "UserError" THEN respond(c, errorItems(how), TRUE)
            ELSE [c EXCEPT !.phase = "done", !.outcome = "InternalError",
                           !.responses = @ + 1, !.wire = Append(@, 0)]
    ELSE [e EXCEPT !.running = FALSE, !.how = how, !.value = v,
                   !.unhandled = @ + finallyRejects(e, how)]
executeSettled(e, how, v) ==
  IF e.phase = "race"
    THEN LET c == [e EXCEPT !.running = FALSE, !.how = how, !.value = v,
                            !.timer = IF @ = "armed" THEN "cleared" ELSE @,
                            !.unhandled = @ + finallyRejects(e, how)]
         IN IF how = "returns" THEN [c EXCEPT !.phase = "delay"]
                               ELSE respond(c, errorItems(how), TRUE)
    ELSE [e EXCEPT !.running = FALSE, !.how = how, !.value = v,
                   !.unhandled = @ + finallyRejects(e, how)]

\* the setTimeout callback of the race: reject(new UserError("Tool '<name>'
\* timed out after <T>ms. ...")), which the catch block turns into the result
timerFired_noReject(e) == [e EXCEPT !.timer = "fired"]
timerFired(e) ==
  respond(flush([e EXCEPT !.timer = "fired"]), <<textItem("timed out")>>, TRUE)

\* the normalisation after await delay(1): undefined/null, a string, an object
\* with a type key, anything else through ContentResultZodSchema.parse
normalize_textForVoid(v) ==
  IF v = "undefined" THEN [ok |-> TRUE, content |-> <<textItem("undefined")>>]
  ELSE IF v = "string" THEN [ok |-> TRUE, content |-> <<textItem(theString)>>]
  ELSE IF v = "item" THEN [ok |-> TRUE, content |-> <<theItem>>]
  ELSE IF v = "envelope" THEN [ok |-> TRUE, content |-> theEnvelope]
  ELSE [ok |-> FALSE, content |-> <<>>]
normalize(v) ==
  IF v = "undefined" THEN [ok |-> TRUE, content |-> <<>>]
  ELSE IF v = "string" THEN [ok |-> TRUE, content |-> <<textItem(theString)>>]
  ELSE IF v = "item" THEN [ok |-> TRUE, content |-> <<theItem>>]
  ELSE IF v = "envelope" THEN [ok |-> TRUE, content |-> theEnvelope]
  ELSE [ok |-> FALSE, content |-> <<>>]

\* await delay(1) elapsed: normalise and return; a parse failure is thrown
\* inside the try block and ends in the catch block
delayElapsed(e) ==
  LET n == normalize(e.value)
  IN IF n.ok THEN respond(flush(e), n.content, FALSE)
             ELSE respond(flush(e), errorItems("Error"), TRUE)

callPending(s) == Len(calls[s]) > 0 /\ calls[s][Len(calls[s])].outcome = "pending"

\* a call-tool request reaches a session whose tool handlers are registered
CallTool(s, name, argsOk) ==
  /\ sess[s].created
  /\ sess[s].toolHandlers
  /\ sess[s].transportBound
  /\ Len(calls[s]) < MaxCalls
  /\ ~callPending(s)
  /\ calls' = [calls EXCEPT ![s] = Append(@, callTool(s, name, argsOk))]
  /\ UNCHANGED <<mode, hasAuthenticate, options, transportTyped, runtime, registry, reqs, http, tools, sessions, events, conn, sess>>

\* a call-tool request reaches a session that registered no handler for it: the
\* protocol engine answers "method not found" itself
CallToolUnhandled(s, name) ==
  /\ sess[s].created
  /\ ~sess[s].toolHandlers
  /\ sess[s].transportBound
  /\ Len(calls[s]) < MaxCalls
  /\ calls' = [calls EXCEPT ![s] = Append(@, protocolError(name, TRUE, "MethodNotFound"))]
  /\ UNCHANGED <<mode, hasAuthenticate, options, transportTyped, runtime, registry, reqs, http, tools, sessions, events, conn, sess>>

\* the execute promise of call i settles: how, and with which value
CallSettle(s, i, how, v) ==
  /\ i \in 1..Len(calls[s])
  /\ calls[s][i].running
  /\ (how = "returns") = (v # "none")
  /\ calls' = [calls EXCEPT ![s][i] = executeSettled(@, how, v)]
  /\ UNCHANGED <<mode, hasAuthenticate, options, transportTyped, runtime, registry, reqs, http, tools, sessions, events, conn, sess>>

\* the timeout timer of call i fires before execute settled
CallTimeout(s, i) ==
  /\ i \in 1..Len(calls[s])
  /\ calls[s][i].timer = "armed"
  /\ calls' = [calls EXCEPT ![s][i] = timerFired(@)]
  /\ UNCHANGED <<mode, hasAuthenticate, options, transportTyped, runtime, registry, reqs, http, tools, sessions, events, conn, sess>>

\* await delay(1) of call i elapsed
CallFinish(s, i) ==
  /\ i \in 1..Len(calls[s])
  /\ calls[s][i].phase = "delay"
  /\ calls' = [calls EXCEPT ![s][i] = delayElapsed(@)]
  /\ UNCHANGED <<mode, hasAuthenticate, options, transportTyped, runtime, registry, reqs, http, tools, sessions, events, conn, sess>>

\* the running execute of call i calls reportProgress or streamContent
ToolNotify(s, i) ==
  /\ i \in 1..Len(calls[s])
  /\ calls[s][i].phase = "race"
  /\ calls[s][i].issued < MaxNotifs
  /\ calls' = [calls EXCEPT ![s][i] = notify(@, sess[s].transportType = "httpStream")]
  /\ UNCHANGED <<mode, hasAuthenticate, options, transportTyped, runtime, registry, reqs, http, tools, sessions, events, conn, sess>>

\* the event loop turns (setImmediate, a timer, I/O): buffered notifications go out
NotifyFlush(s, i) ==
  /\ i \in 1..Len(calls[s])
  /\ calls[s][i].buffer # <<>>
  /\ calls' = [calls EXCEPT ![s][i] = flush(@)]
  /\ UNCHANGED <<mode, hasAuthenticate, options, transportTyped, runtime, registry, reqs, http, tools, sessions, events, conn, sess>>

\* ---- the prompt, resource, completion and list request handlers ----
\* one request: what the handler looked up, the load or completer it called
\* and the auth it handed over, and the response.  An error response carries
\* its code and what its message names.
NoMessage == [text |-> "none", name |-> "none", argument |-> "none", uri |-> <<>>, listed |-> <<>>]
NoReq ==
  [kind |-> "none", name |-> "none", uri |-> <<>>, args |-> {}, argument |-> "none",
   value |-> "none", phase |-> "done", via |-> "none", matched |-> <<>>, loads |-> 0,
   auth |-> "none", outcome |-> "pending", message |-> NoMessage, result |-> <<>>,
   total |-> <<>>, how |-> "none"]

\* throw new McpError(code, message): the protocol engine answers with that error
reqError(e, code, msg) == [e EXCEPT !.phase = "done", !.outcome = code, !.message = msg]
\* a value that is no McpError escapes the handler: the protocol engine answers
\* with an internal error carrying the message of the thrown value
reqEscaped(e, text) ==
  [e EXCEPT !.phase = "done", !.outcome = "InternalError",
            !.message = [NoMessage EXCEPT !.text = text]]
\* the handler returns
reqResult(e, res) == [e EXCEPT !.phase = "done", !.outcome = "result", !.result = res]
\* the awaited load or completer settled: how
settled(e, how) == [e EXCEPT !.how = how]
\* prompt.load / resource.load / a completer is called with this.#auth
reqLoad_firstSessionAuth(e, s, via) ==
  [e EXCEPT !.phase = "load", !.via = via, !.loads = @ + 1, !.auth = sess[1].auth]
reqLoad(e, s, via) ==
  [e EXCEPT !.phase = "load", !.via = via, !.loads = @ + 1, !.auth = sess[s].auth]

\* -- GetPromptRequestSchema --
\* the first required argument of the prompt that the arguments lack
missingArguments(name, args) ==
  SelectSeq(promptArguments(name), LAMBDA a : argRequired(name, a) /\ a \notin args)

getPrompt_loadsFirst(s, name, args) ==
  LET e == [NoReq EXCEPT !.kind = "getPrompt", !.name = name, !.args = args]
  IN IF name \notin Range(registry.prompts)
       THEN reqError(e, "MethodNotFound",
                     [NoMessage EXCEPT !.text = "Unknown prompt", !.name = name])
       ELSE reqLoad(e, s, "prompt")
getPrompt(s, name, args) ==
  LET e == [NoReq EXCEPT !.kind = "getPrompt", !.name = name, !.args = args]
  IN IF name \notin Range(registry.prompts)
       THEN reqError(e, "MethodNotFound",
                     [NoMessage EXCEPT !.text = "Unknown prompt", !.name = name])
       ELSE IF missingArguments(name, args) # <<>>
         THEN reqError(e, "InvalidRequest",
                       [NoMessage EXCEPT !.text = "requires argument", !.name = name,
                                         !.argument = missingArguments(name, args)[1]])
         ELSE reqLoad(e, s, "prompt")

\* what prompt.load settles with: a string, a {messages} object, a rejection
PromptLoads == {"string", "messages", "throws"}
promptLoaded(e, how) ==
  IF how = "throws"
    THEN reqError(settled(e, how), "InternalError",
                  [NoMessage EXCEPT !.text = "Failed to load prompt", !.name = e.name])
    ELSE IF how = "string"
      THEN reqResult(settled(e, how), <<[role |-> "user", text |-> "loaded"]>>)
      ELSE reqResult(settled(e, how), <<[role |-> "assistant", text |-> "first"],
                                        [role |-> "user", text |-> "second"]>>)

\* -- ReadResourceRequestSchema --
\* uri-templates fromUri: the values of the variables when the URI fits the
\* pattern (<<>> for a pattern without variables), "no match" otherwise
fits(tpl, uri) ==
  /\ Len(tpl) = Len(uri)
  /\ \A i \in 1..Len(tpl) : isVariable(tpl[i]) \/ tpl[i] = uri[i]
fromUri(tpl, uri) ==
  SelectSeq([i \in 1..Len(tpl) |-> <<tpl[i], uri[i]>>], LAMBDA b : isVariable(b[1]))
\* uri-templates fill: the pattern with the variables replaced by their values
valueOf(match, v) == match[CHOOSE i \in 1..Len(match) : match[i][1] = v][2]
fill(tpl, match) ==
  [i \in 1..Len(tpl) |-> IF isVariable(tpl[i]) THEN valueOf(match, tpl[i]) ELSE tpl[i]]
\* for (const resourceTemplate of this.#resourceTemplates): the templates that fit
fitting(s, uri) == SelectSeq(sess[s].resourceTemplates, LAMBDA tpl : fits(tpl, uri))

\* (variant: the templates are tried before the exact URIs)
readResource_templatesFirst(s, uri) ==
  LET e == [NoReq EXCEPT !.kind = "readResource", !.uri = uri]
  IN IF fitting(s, uri) # <<>>
       THEN reqLoad([e EXCEPT !.name = resourceName(fitting(s, uri)[1]),
                              !.matched = fitting(s, uri)[1]], s, "template")
       ELSE IF uri \in Range(registry.resources)
         THEN reqLoad([e EXCEPT !.name = resourceName(uri), !.matched = uri], s, "resource")
         ELSE reqError(e, "MethodNotFound",
                       [NoMessage EXCEPT !.text = "Resource not found", !.uri = uri,
                                         !.listed = registry.resources])
readResource(s, uri) ==
  LET e == [NoReq EXCEPT !.kind = "readResource", !.uri = uri]
  IN IF uri \in Range(registry.resources)
       THEN reqLoad([e EXCEPT !.name = resourceName(uri), !.matched = uri], s, "resource")
       ELSE IF fitting(s, uri) # <<>>
         THEN reqLoad([e EXCEPT !.name = resourceName(fitting(s, uri)[1]),
                                !.matched = fitting(s, uri)[1]], s, "template")
         ELSE reqError(e, "MethodNotFound",
                       [NoMessage EXCEPT !.text = "Resource not found", !.uri = uri,
                                         !.listed = registry.resources])

\* what a load settles with: one content, or a rejection.  Only the load of an
\* exact resource sits in a try block.
ResourceLoads == {"content", "throws"}
resourceLoaded(e, how) ==
  IF how = "throws"
    THEN IF e.via = "resource"
           THEN reqError(settled(e, how), "InternalError",
                         [NoMessage EXCEPT !.text = "Failed to load resource",
                                           !.name = e.name, !.uri = e.matched])
           ELSE reqEscaped(settled(e, how), "thrown by load")
    ELSE IF e.via = "resource"
      THEN reqResult(settled(e, how),
                     <<[name |-> e.name, uri |-> e.matched, text |-> "content"]>>)
      ELSE reqResult(settled(e, how),
                     <<[name |-> e.name, uri |-> fill(e.matched, fromUri(e.matched, e.uri)),
                        text |-> "content"]>>)

\* -- CompleteRequestSchema --
\* a completion object: the values and the optional total (<<>>: not given)
completionOf(n) == [values |-> [i \in 1..n |-> <<"value", i>>], total |-> <<n>>]
\* what a user-supplied completer can resolve with
Completions == {completionOf(n) : n \in {2, 100, 101}} \cup {[values |-> <<>>, total |-> <<>>]}

\* Fuse.search(value) over the enumeration: the entries the value matches, here
\* those whose word is the value
fuseSearch(enum, value) == SelectSeq(enum, LAMBDA x : x[1] = value)

\* CompletionZodSchema.parse: values: z.array(z.string()).max(100); a failure
\* is thrown out of the handler
parseCompletion_noCap(e, c) ==
  [reqResult(e, c.values) EXCEPT !.total = c.total]
parseCompletion(e, c) ==
  IF Len(c.values) <= 100
    THEN [reqResult(e, c.values) EXCEPT !.total = c.total]
    ELSE reqEscaped(e, "ZodError")

\* the complete function addPrompt builds for a prompt: the completer of the
\* argument, else the fuzzy matcher over its enum, else no values
completePrompt(s, name, argument, value) ==
  LET e == [NoReq EXCEPT !.kind = "complete", !.name = name, !.argument = argument,
                         !.value = value]
  IN IF name \notin Range(sess[s].prompts)
       THEN reqEscaped(e, "Unknown prompt")
       ELSE IF hasComplete(name, argument)
         THEN reqLoad(e, s, "completer")
         ELSE IF hasEnum(name, argument)
           THEN LET found == fuseSearch(argEnum(name, argument), value)
                IN parseCompletion([e EXCEPT !.via = "enum"],
                                   [values |-> found, total |-> <<Len(found)>>])
           ELSE parseCompletion([e EXCEPT !.via = "empty"],
                                [values |-> <<>>, total |-> <<>>])

\* the complete function addResourceTemplate builds: the completer, else no values
completeResource(s, uri, argument, value) ==
  LET e == [NoReq EXCEPT !.kind = "complete", !.uri = uri, !.argument = argument,
                         !.value = value]
  IN IF uri \notin Range(sess[s].resourceTemplates)
       THEN reqEscaped(e, "Unknown resource")
       ELSE IF templateHasComplete(uri, argument)
         THEN reqLoad([e EXCEPT !.matched = uri], s, "completer")
         ELSE parseCompletion([e EXCEPT !.via = "empty", !.matched = uri],
                              [values |-> <<>>, total |-> <<>>])

\* the awaited completer settled
completerSettled(e, how, c) ==
  IF how = "throws" THEN reqEscaped(settled(e, how), "thrown by completer")
                    ELSE parseCompletion(settled(e, how), c)

\* -- the list handlers --
\* ListTools / ListPrompts / ListResources / ListResourceTemplates: the names
\* (URIs, patterns) of the array the handler was set up with
ListKinds == {"listTools", "listPrompts", "listResources", "listResourceTemplates"}
listed_notYetCalled(s, kind) ==
  CASE kind = "listTools" ->
         SelectSeq(sess[s].tools,
                   LAMBDA t : \A i \in 1..Len(calls[s]) : calls[s][i].name # t)
    [] kind = "listPrompts" -> registry.prompts
    [] kind = "listResources" -> registry.resources
    [] kind = "listResourceTemplates" -> registry.resourcesTemplates
listed(s, kind) ==
  CASE kind = "listTools" -> sess[s].tools
    [] kind = "listPrompts" -> registry.prompts
    [] kind = "listResources" -> registry.resources
    [] kind = "listResourceTemplates" -> registry.resourcesTemplates
hasListHandler(s, kind) ==
  CASE kind = "listTools" -> sess[s].toolHandlers
    [] kind = "listPrompts" -> sess[s].promptHandlers
    [] kind = "listResources" -> sess[s].resourceHandlers
    [] kind = "listResourceTemplates" ->
         sess[s].resourceHandlers /\ Len(sess[s].resourceTemplates) > 0
\* the answer, and whether it was the first request the session handled
handled(s) == Len(calls[s]) + Len(reqs[s]) + Len(sess[s].setLevels)
listRequest(s, kind) == [kind |-> kind, result |-> listed(s, kind), first |-> handled(s) = 0]

\* -- the requests as actions --
reqPending(s) == Len(reqs[s]) > 0 /\ reqs[s][Len(reqs[s])].phase = "load"

\* a request reaches a connected session that has no load in progress
accepts(s) ==
  /\ sess[s].created
  /\ sess[s].transportBound
  /\ Len(reqs[s]) < MaxRequests
  /\ ~reqPending(s)

GetPrompt(s, name, args) ==
  /\ accepts(s)
  /\ sess[s].promptHandlers
  /\ reqs' = [reqs EXCEPT ![s] = Append(@, getPrompt(s, name, args))]
  /\ UNCHANGED <<mode, hasAuthenticate, options, transportTyped, runtime, registry, http, tools, sessions, events, conn, sess, calls>>

\* await prompt.load(...) of request i settled
PromptSettle(s, i, how) ==
  /\ i \in 1..Len(reqs[s])
  /\ reqs[s][i].phase = "load" /\ reqs[s][i].via = "prompt"
  /\ reqs' = [reqs EXCEPT ![s][i] = promptLoaded(@, how)]
  /\ UNCHANGED <<mode, hasAuthenticate, options, transportTyped, runtime, registry, http, tools, sessions, events, conn, sess, calls>>

ReadResource(s, uri) ==
  /\ accepts(s)
  /\ sess[s].resourceHandlers
  /\ reqs' = [reqs EXCEPT ![s] = Append(@, readResource(s, uri))]
  /\ UNCHANGED <<mode, hasAuthenticate, options, transportTyped, runtime, registry, http, tools, sessions, events, conn, sess, calls>>

\* await resource.load(...) / resourceTemplate.load(...) of request i settled
ResourceSettle(s, i, how) ==
  /\ i \in 1..Len(reqs[s])
  /\ reqs[s][i].phase = "load" /\ reqs[s][i].via \in {"resource", "template"}
  /\ reqs' = [reqs EXCEPT ![s][i] = resourceLoaded(@, how)]
  /\ UNCHANGED <<mode, hasAuthenticate, options, transportTyped, runtime, registry, http, tools, sessions, events, conn, sess, calls>>

CompletePrompt(s, name, argument, value) ==
  /\ accepts(s)
  /\ reqs' = [reqs EXCEPT ![s] = Append(@, completePrompt(s, name, argument, value))]
  /\ UNCHANGED <<mode, hasAuthenticate, options, transportTyped, runtime, registry, http, tools, sessions, events, conn, sess, calls>>

CompleteResource(s, uri, argument, value) ==
  /\ accepts(s)
  /\ reqs' = [reqs EXCEPT ![s] = Append(@, completeResource(s, uri, argument, value))]
  /\ UNCHANGED <<mode, hasAuthenticate, options, transportTyped, runtime, registry, http, tools, sessions, events, conn, sess, calls>>

\* the awaited completer of request i settled
CompleterSettle(s, i, how, c) ==
  /\ i \in 1..Len(reqs[s])
  /\ reqs[s][i].phase = "load" /\ reqs[s][i].via = "completer"
  /\ reqs' = [reqs EXCEPT ![s][i] = completerSettled(@, how, c)]
  /\ UNCHANGED <<mode, hasAuthenticate, options, transportTyped, runtime, registry, http, tools, sessions, events, conn, sess, calls>>

ListRequest(s, kind) ==
  /\ sess[s].created
  /\ sess[s].transportBound
  /\ Len(sess[s].lists) < MaxLists
  /\ hasListHandler(s, kind)
  /\ sess' = [sess EXCEPT ![s].lists = Append(@, listRequest(s, kind))]
  /\ UNCHANGED <<mode, hasAuthenticate, options, transportTyped, runtime, registry, reqs, http, tools, sessions, events, conn, calls>>

\* ---- specifications ----
\* What getClientCapabilities() can return: nothing yet, capabilities without
\* roots.listChanged, capabilities with it.
Caps == {"none", "plain", "roots"}

\* the steps of a session's connect() and close() that need no input
SessionStep(c) ==
  \/ ServerConnectFail(c)
  \/ SessionClose(c)
  \/ TransportClose(c)

\* start() and the transport layer's callbacks, after the authenticate hook
ServerStep(c) ==
  \/ StartStdio(c)
  \/ StartStdioFinish(c)
  \/ StartStdioFail(c)
  \/ HttpRequest(c)
  \/ HttpOnConnect(c)
  \/ HttpOnClose(c)

\* One connection in full detail: the hook resolves to or throws any value,
\* the capabilities may arrive at any poll or never, and host code may connect
\* the session again.
Next ==
  \/ \E st \in BOOLEAN : StartHttp(st)
  \/ ServerStep(1)
  \/ SessionStep(1)
  \/ \E a \in Auths : StdioAuthResolve(1, a)
  \/ \E v \in Thrown : StdioAuthReject(1, v)
  \/ \E a \in Auths : HttpAuthResolve(1, a)
  \/ \E v \in Thrown : HttpAuthReject(1, v)
  \/ \E caps \in Caps : ServerConnectOk(1, caps)
  \/ \E caps \in Caps : PollWake(1, caps)
  \/ \E res \in RootResults : RootsSettle(1, res)
  \/ SessionConnect(1)

Spec == Init /\ [][Next]_vars

\* Several connections.  The hook resolves to one value or throws one value,
\* every client has sent its capabilities by the time the session first asks
\* for them and answers listRoots with MethodNotFound, and no session is
\* connected twice.
NextServer ==
  \/ \E st \in BOOLEAN : StartHttp(st)
  \/ \E c \in Conns : ServerStep(c)
  \/ \E c \in Conns : SessionStep(c)
  \/ \E c \in Conns : StdioAuthResolve(c, "user")
  \/ \E c \in Conns : StdioAuthReject(c, "Error")
  \/ \E c \in Conns : HttpAuthResolve(c, "user")
  \/ \E c \in Conns : HttpAuthReject(c, "Error")
  \/ \E c \in Conns : \E caps \in Caps \ {"none"} : ServerConnectOk(c, caps)
  \/ \E c \in Conns : RootsSettle(c, <<"MethodNotFound", <<>>>>)

InitServer ==
  /\ Init
  /\ tools = <<"admin-tool", "public-tool", "add">>

SpecServer == InitServer /\ [][NextServer]_vars

\* One HTTP stream connection and its tool calls: the client has sent its
\* capabilities by the first poll; requests name a registered or an unknown tool, with
\* arguments that satisfy or violate the tool's parameter schema; execute
\* settles in any way, before or after the timer of a tool with timeoutMs.
InitCalls ==
  /\ Init
  /\ ~hasAuthenticate
  /\ tools = <<"admin-tool", "public-tool", "add">>

NextCalls ==
  \/ StartHttp(FALSE)
  \/ HttpRequest(1)
  \/ HttpOnConnect(1)
  \/ HttpOnClose(1)
  \/ ServerConnectOk(1, "plain")
  \/ \E name \in ToolNames \cup {"unknown"} : \E argsOk \in BOOLEAN :
        (argsOk \/ hasParameters(name)) /\ CallTool(1, name, argsOk)
  \/ \E i \in 1..MaxCalls : \E how \in Settles : \E v \in Returned \cup {"none"} :
        CallSettle(1, i, how, v)
  \/ \E i \in 1..MaxCalls : CallTimeout(1, i)
  \/ \E i \in 1..MaxCalls : CallFinish(1, i)

SpecCalls == InitCalls /\ [][NextCalls]_vars

\* One connection and the notifications of its tool calls: the tools issue up
\* to MaxNotifs notifications while they run, awaited or not.
InitNotify ==
  /\ Init
  /\ ~hasAuthenticate
  /\ tools = <<"admin-tool", "public-tool", "add">>

NextNotify ==
  \/ \E st \in BOOLEAN : StartHttp(st)
  \/ ServerStep(1)
  \/ ServerConnectFail(1)
  \/ ServerConnectOk(1, "plain")
  \/ \E name \in {"admin-tool", "public-tool"} : CallTool(1, name, TRUE)
  \/ \E i \in 1..MaxCalls : ToolNotify(1, i)
  \/ \E i \in 1..MaxCalls : NotifyFlush(1, i)
  \/ \E i \in 1..MaxCalls : CallSettle(1, i, "returns", "string")
  \/ \E i \in 1..MaxCalls : CallSettle(1, i, "Error", "none")
  \/ \E i \in 1..MaxCalls : CallTimeout(1, i)
  \/ \E i \in 1..MaxCalls : CallFinish(1, i)

SpecNotify == InitNotify /\ [][NextNotify]_vars

\* One connection of a server built with roots support left on or switched
\* off: the client has sent its capabilities by the first poll and announces
\* changes of its roots.
InitRoots ==
  /\ InitState
  /\ ~hasAuthenticate
  /\ tools = <<"admin-tool", "public-tool", "add">>
  /\ options \in {o \in Options : o.pingEnabled = "false" /\ o.pingLogLevel = "unset"}
  /\ transportTyped = TRUE

NextRoots ==
  \/ \E st \in BOOLEAN : StartHttp(st)
  \/ ServerStep(1)
  \/ SessionStep(1)
  \/ \E caps \in Caps \ {"none"} : ServerConnectOk(1, caps)
  \/ \E res \in RootResults : RootsSettle(1, res)
  \/ SessionConnect(1)
  \/ RootsListChanged(1)
  \/ \E res \in RootResults : RootsFetchSettle(1, res)

SpecRoots == InitRoots /\ [][NextRoots]_vars

\* One connection of a server built with any ping options, on either transport
\* layer: the capabilities may arrive at any poll or never, the ping timers fire.
InitPing ==
  /\ InitState
  /\ ~hasAuthenticate
  /\ tools = <<"admin-tool", "public-tool", "add">>
  /\ options \in {o \in Options : o.rootsEnabled = "unset"}
  /\ transportTyped \in BOOLEAN

NextPing ==
  \/ \E st \in BOOLEAN : StartHttp(st)
  \/ ServerStep(1)
  \/ ServerConnectFail(1)
  \/ SessionClose(1)
  \/ TransportClose(1)
  \/ \E caps \in Caps \ {"roots"} : ServerConnectOk(1, caps)
  \/ \E caps \in Caps \ {"roots"} : PollWake(1, caps)
  \/ SessionConnect(1)
  \/ PingOk(1)
  \/ PingFail(1)

SpecPing == InitPing /\ [][NextPing]_vars

\* One connection whose host code waits for the session to become ready; the
\* five-second timer of a pending waitForReady() fires unless the waiter
\* settles first.
InitReady ==
  /\ Init
  /\ ~hasAuthenticate
  /\ tools = <<"admin-tool", "public-tool", "add">>

NextReady ==
  \/ \E st \in BOOLEAN : StartHttp(st)
  \/ ServerStep(1)
  \/ SessionStep(1)
  \/ \E caps \in Caps : ServerConnectOk(1, caps)
  \/ \E caps \in Caps : PollWake(1, caps)
  \/ \E res \in RootResults : RootsSettle(1, res)
  \/ SessionConnect(1)
  \/ WaitForReady(1)
  \/ WaitTimeout(1)

SpecReady == InitReady /\ [][NextReady]_vars /\ WF_vars(WaitTimeout(1))

\* Two HTTP stream sessions side by side, no authenticate hook: both receive
\* set-level requests, the first also tool calls, in any interleaving.
InitLogging ==
  /\ Init
  /\ ~hasAuthenticate
  /\ tools = <<"admin-tool", "public-tool", "add">>

NextLogging ==
  \/ StartHttp(FALSE)
  \/ \E c \in TwoConns : HttpRequest(c)
  \/ \E c \in TwoConns : HttpOnConnect(c)
  \/ HttpOnClose(2)
  \/ \E c \in TwoConns : ServerConnectOk(c, "plain")
  \/ \E c \in TwoConns : \E level \in LoggingLevels : SetLevel(c, level)
  \/ CallTool(1, "add", TRUE)
  \/ \E i \in 1..MaxCalls : CallSettle(1, i, "returns", "string")
  \/ \E i \in 1..MaxCalls : CallFinish(1, i)

SpecLogging == InitLogging /\ [][NextLogging]_vars

\* The HTTP modes with any health options: two connections come and go, their
\* handshakes succeed or fail, and GET/POST requests for /health, /ready and
\* another path arrive in between.
InitHealth ==
  /\ InitState
  /\ ~hasAuthenticate
  /\ tools = <<"admin-tool">>
  /\ options \in HealthOptions
  /\ transportTyped = TRUE

NextHealth ==
  \/ \E st \in BOOLEAN : StartHttp(st)
  \/ \E c \in TwoConns : HttpRequest(c)
  \/ \E c \in TwoConns : HttpOnConnect(c)
  \/ \E c \in TwoConns : HttpOnClose(c)
  \/ \E c \in TwoConns : ServerConnectOk(c, "plain")
  \/ \E c \in TwoConns : ServerConnectFail(c)
  \/ \E method \in {"GET", "POST"} : \E path \in {"/health", "/ready", "/other"} :
        HttpUnhandled(method, path)

SpecHealth == InitHealth /\ [][NextHealth]_vars

\* start() under any combination of explicit options, command-line flags and
\* environment variables.
InitConfig ==
  /\ mode = "none"
  /\ hasAuthenticate = FALSE
  /\ options = DefaultOptions
  /\ transportTyped = TRUE
  /\ tools = <<"admin-tool">>
  /\ sessions = <<>>
  /\ events = <<>>
  /\ conn = [c \in Conns |-> NoConn]
  /\ sess = [s \in Conns |-> NoSession]
  /\ calls = [s \in Conns |-> <<>>]
  /\ reqs = [s \in Conns |-> <<>>]
  /\ registry = TestRegistry
  /\ http = NoHttp
  /\ \E ov \in Overrides : \E args \in Args : \E env \in Env :
        runtime = [NoRuntime EXCEPT !.overrides = ov, !.args = args, !.env = env]

NextConfig == StartConfigured

SpecConfig == InitConfig /\ [][NextConfig]_vars

\* Two HTTP stream sessions behind an authenticate hook that resolves to
\* different values for the two: tool calls, template reads and prompt
\* completions of the first, prompt gets, resource reads and template
\* completions of the second, their loads in flight at the same time.
InitAuth ==
  /\ Init
  /\ hasAuthenticate
  /\ tools = <<"admin-tool", "public-tool", "add">>

NextAuth ==
  \/ StartHttp(FALSE)
  \/ \E c \in TwoConns : HttpRequest(c)
  \/ HttpAuthResolve(1, "admin")
  \/ \E a \in {"user", "undef"} : HttpAuthResolve(2, a)
  \/ \E c \in TwoConns : HttpOnConnect(c)
  \/ \E c \in TwoConns : ServerConnectOk(c, "plain")
  \/ CallTool(1, "add", TRUE)
  \/ \E i \in 1..MaxCalls : CallSettle(1, i, "UserError", "none")
  \/ GetPrompt(2, "plain", {})
  \/ \E i \in 1..MaxRequests : PromptSettle(2, i, "string")
  \/ ReadResource(1, dbLog)
  \/ ReadResource(2, appLog)
  \/ \E c \in TwoConns : \E i \in 1..MaxRequests : ResourceSettle(c, i, "content")
  \/ CompletePrompt(1, "greet", "city", "a")
  \/ CompleteResource(2, logTemplate, "name", "a")
  \/ \E c \in TwoConns : \E i \in 1..MaxRequests : CompleterSettle(c, i, "returns", completionOf(2))

SpecAuth == InitAuth /\ [][NextAuth]_vars

\* One HTTP stream session and its get-prompt requests: a registered or an
\* unknown prompt, any subset of the arguments supplied, load settling in any way.
InitPrompts ==
  /\ Init
  /\ ~hasAuthenticate
  /\ tools = <<"admin-tool">>

NextPrompts ==
  \/ StartHttp(FALSE)
  \/ HttpRequest(1)
  \/ HttpOnConnect(1)
  \/ HttpOnClose(1)
  \/ ServerConnectOk(1, "plain")
  \/ \E name \in PromptNames \cup {"unknown"} : \E args \in SUBSET {"name", "style"} :
        GetPrompt(1, name, args)
  \/ \E i \in 1..MaxRequests : \E how \in PromptLoads : PromptSettle(1, i, how)

SpecPrompts == InitPrompts /\ [][NextPrompts]_vars

\* One HTTP stream session and its read-resource requests: the URI of a
\* registered resource, one that a template serves, one that nothing serves;
\* the load settles either way.
InitResources ==
  /\ Init
  /\ ~hasAuthenticate
  /\ tools = <<"admin-tool">>

NextResources ==
  \/ StartHttp(FALSE)
  \/ HttpRequest(1)
  \/ HttpOnConnect(1)
  \/ HttpOnClose(1)
  \/ ServerConnectOk(1, "plain")
  \/ \E uri \in RequestUris : ReadResource(1, uri)
  \/ \E i \in 1..MaxRequests : \E how \in ResourceLoads : ResourceSettle(1, i, how)

SpecResources == InitResources /\ [][NextResources]_vars

\* One HTTP stream session and its completion requests, for prompt arguments
\* with a completer, with an enum (of two and of 101 values) or with neither,
\* and for template arguments; a completer resolves with up to 101 values.
InitComplete ==
  /\ Init
  /\ ~hasAuthenticate
  /\ tools = <<"admin-tool">>

NextComplete ==
  \/ StartHttp(FALSE)
  \/ HttpRequest(1)
  \/ HttpOnConnect(1)
  \/ HttpOnClose(1)
  \/ ServerConnectOk(1, "plain")
  \/ \E name \in {"greet", "catalog", "unknown"} :
     \E argument \in {"name", "style", "city", "item"} :
     \E value \in {"formal", "item"} :
        CompletePrompt(1, name, argument, value)
  \/ CompleteResource(1, logTemplate, "name", "a")
  \/ CompleteResource(1, logTemplate, "other", "a")
  \/ CompleteResource(1, appLog, "name", "a")
  \/ \E i \in 1..MaxRequests : \E c \in Completions : CompleterSettle(1, i, "returns", c)
  \/ \E i \in 1..MaxRequests : CompleterSettle(1, i, "throws", completionOf(2))

SpecComplete == InitComplete /\ [][NextComplete]_vars

\* A server being set up: tools, prompts, resources and templates are added in
\* any order, the same one possibly more than once, before start().
NoRegistry == [prompts |-> <<>>, resources |-> <<>>, resourcesTemplates |-> <<>>]

InitRegistry ==
  /\ mode = "none"
  /\ hasAuthenticate = FALSE
  /\ options = DefaultOptions
  /\ transportTyped = TRUE
  /\ tools = <<>>
  /\ sessions = <<>>
  /\ events = <<>>
  /\ conn = [c \in Conns |-> NoConn]
  /\ sess = [s \in Conns |-> NoSession]
  /\ calls = [s \in Conns |-> <<>>]
  /\ reqs = [s \in Conns |-> <<>>]
  /\ registry = NoRegistry
  /\ runtime = NoRuntime
  /\ http = NoHttp

NextRegistry ==
  \/ \E name \in ToolNames : AddTool(name)
  \/ \E name \in PromptNames : AddPrompt(name)
  \/ \E uri \in {appLog, readme} : AddResource(uri)
  \/ \E tpl \in {logTemplate, <<"docs://", "{name}">>} : AddResourceTemplate(tpl)

SpecRegistry == InitRegistry /\ [][NextRegistry]_vars

\* One HTTP stream session and its list requests, with tool calls, prompt gets,
\* resource reads and set-level requests before, between and after them.
InitList ==
  /\ Init
  /\ ~hasAuthenticate
  /\ tools = <<"admin-tool", "public-tool", "add">>

NextList ==
  \/ StartHttp(FALSE)
  \/ HttpRequest(1)
  \/ HttpOnConnect(1)
  \/ ServerConnectOk(1, "plain")
  \/ \E kind \in ListKinds : ListRequest(1, kind)
  \/ CallTool(1, "add", TRUE)
  \/ \E i \in 1..MaxCalls : CallSettle(1, i, "UserError", "none")
  \/ GetPrompt(1, "plain", {})
  \/ \E i \in 1..MaxRequests : PromptSettle(1, i, "string")
  \/ ReadResource(1, appLog)
  \/ \E i \in 1..MaxRequests : ResourceSettle(1, i, "content")
  \/ SetLevel(1, "debug")

SpecList == InitList /\ [][NextList]_vars

\* One connection and its handshakes: the capabilities arrive at any poll or
\* never, the session may be closed and connected again.  The delay between
\* two polls always elapses, and a roots request always settles (the protocol
\* engine times it out).
InitConnect ==
  /\ Init
  /\ ~hasAuthenticate
  /\ tools = <<"admin-tool", "public-tool", "add">>

NextConnect ==
  \/ \E st \in BOOLEAN : StartHttp(st)
  \/ ServerStep(1)
  \/ SessionStep(1)
  \/ \E caps \in Caps : ServerConnectOk(1, caps)
  \/ \E caps \in Caps : PollWake(1, caps)
  \/ \E res \in RootResults : RootsSettle(1, res)
  \/ SessionConnect(1)

SpecConnect ==
  /\ InitConnect
  /\ [][NextConnect]_vars
  /\ WF_vars(\E caps \in Caps : PollWake(1, caps))
  /\ WF_vars(\E res \in RootResults : RootsSettle(1, res))

\* A server whose resources and resource templates are registered in any order
\* before start(), among them a resource whose URI a template fits and two
\* templates that fit the same URI; one client reads resources.
InitLookup == InitRegistry

NextLookup ==
  \/ \E uri \in {appLog, dbLog} : AddResource(uri)
  \/ \E tpl \in {logTemplate, dbTemplate} : AddResourceTemplate(tpl)
  \/ StartHttp(FALSE)
  \/ HttpRequest(1)
  \/ HttpOnConnect(1)
  \/ ServerConnectOk(1, "plain")
  \/ \E uri \in {appLog, dbLog} : ReadResource(1, uri)
  \/ \E i \in 1..MaxRequests : \E how \in ResourceLoads : ResourceSettle(1, i, how)

SpecLookup == InitLookup /\ [][NextLookup]_vars

\* One HTTP stream session whose client announces changes of its roots while
\* earlier listRoots() requests are still in flight: the responses arrive in
\* any order.
InitRace ==
  /\ Init
  /\ ~hasAuthenticate
  /\ tools = <<"admin-tool", "public-tool", "add">>

NextRace ==
  \/ StartHttp(FALSE)
  \/ HttpRequest(1)
  \/ HttpOnConnect(1)
  \/ \E caps \in Caps \ {"none"} : ServerConnectOk(1, caps)
  \/ \E res \in RootResults : RootsSettle(1, res)
  \/ RootsListChanged(1)
  \/ \E k \in 1..(MaxRootsChanges + 1) : \E res \in RootResults : RootsFetchArrive(1, k, res)

SpecRace == InitRace /\ [][NextRace]_vars

\* One session on either transport of a server with no tool, with only a tool
\* that has an access predicate, or with that and a tool without one; the hook,
\* when configured, resolves to any value; the client calls tools whether the
\* session advertises them or not.
InitEmpty ==
  /\ mode = "none"
  /\ hasAuthenticate \in BOOLEAN
  /\ options = DefaultOptions
  /\ transportTyped = TRUE
  /\ tools \in {<<>>, <<"admin-tool">>, <<"admin-tool", "add">>}
  /\ sessions = <<>>
  /\ events = <<>>
  /\ conn = [c \in Conns |-> NoConn]
  /\ sess = [s \in Conns |-> NoSession]
  /\ calls = [s \in Conns |-> <<>>]
  /\ reqs = [s \in Conns |-> <<>>]
  /\ registry = TestRegistry
  /\ runtime = NoRuntime
  /\ http = NoHttp

NextEmpty ==
  \/ StartHttp(FALSE)
  \/ StartStdio(1)
  \/ \E a \in Auths : StdioAuthResolve(1, a)
  \/ StartStdioFinish(1)
  \/ HttpRequest(1)
  \/ \E a \in Auths : HttpAuthResolve(1, a)
  \/ HttpOnConnect(1)
  \/ ServerConnectOk(1, "plain")
  \/ \E name \in {"admin-tool", "add"} : CallTool(1, name, TRUE)
  \/ \E name \in {"admin-tool", "add"} : CallToolUnhandled(1, name)
  \/ \E i \in 1..MaxCalls : CallSettle(1, i, "returns", "string")
  \/ \E i \in 1..MaxCalls : CallFinish(1, i)

SpecEmpty == InitEmpty /\ [][NextEmpty]_vars

\* One connection whose host code closes the session at any moment, also while
\* connect() is in progress and also twice in a row, and connects it again;
\* closing the transport may fail.
InitClose ==
  /\ Init
  /\ ~hasAuthenticate
  /\ tools = <<"admin-tool", "public-tool", "add">>

NextClose ==
  \/ \E st \in BOOLEAN : StartHttp(st)
  \/ ServerStep(1)
  \/ SessionStep(1)
  \/ \E dropped \in BOOLEAN : SessionCloseFail(1, dropped)
  \/ \E caps \in Caps : ServerConnectOk(1, caps)
  \/ \E caps \in Caps : PollWake(1, caps)
  \/ \E res \in RootResults : RootsSettle(1, res)
  \/ SessionConnect(1)

SpecClose == InitClose /\ [][NextClose]_vars

\* ---- what a client of session s observes ----
\* the names a list-tools request returns (no handler is registered, and the
\* request fails, when the session was built with no tools)
listTools(s) == IF sess[s].toolHandlers THEN Range(sess[s].tools) ELSE {}
\* a call-tool request naming t gets past the lookup
callable(s, t) == sess[s].toolHandlers /\ callTool(s, t, TRUE).outcome # "MethodNotFound"

eventsOf(type, s) == {i \in 1..Len(events) : events[i][1] = type /\ events[i][2] = s}
connectEvents(s) == Cardinality(eventsOf("connect", s))
disconnectEvents(s) == Cardinality(eventsOf("disconnect", s))

\* ---- claims ----

\* C1 (as stated): the connection state only moves connecting -> ready,
\* connecting -> error, or from any state to closed; error and closed are never
\* left for another state.
C1_ForwardOnly ==
  [][\A s \in Conns :
       (sess[s].created /\ sess'[s].created
          /\ sess'[s].connectionState # sess[s].connectionState)
       => \/ sess[s].connectionState = "connecting"
             /\ sess'[s].connectionState \in {"ready", "error"}
          \/ sess'[s].connectionState = "closed"]_vars

C3_NoAuthAllTools ==
  ~hasAuthenticate =>
    \A s \in Conns : \A t \in Range(tools) :
      sess[s].created => t \in listTools(s) /\ callable(s, t)
C3_Witness ==
  /\ ~hasAuthenticate
  /\ sess[1].created
  /\ sess[1].transportType = "httpStream"
  /\ "admin-tool" \in listTools(1)

\* C4: in stateless HTTP mode the active-session list stays empty and no
\* connect or disconnect event is emitted, whatever requests were handled.
C4_StatelessUntracked ==
  mode = "stateless" => sessions = <<>> /\ events = <<>>
C4_Witness ==
  /\ mode = "stateless"
  /\ conn[1].onCloseCalled
  /\ conn[2].onConnectCalled /\ ~conn[2].onCloseCalled

\* C5: in HTTP session mode the active-session list holds exactly the sessions
\* that connected and have not disconnected, each once.
C5_ActiveSessions ==
  mode = "httpStream" =>
    \A c \in Conns :
      Count(sessions, c) = IF conn[c].onConnectCalled /\ ~conn[c].onCloseCalled THEN 1 ELSE 0
C5_Witness ==
  /\ mode = "httpStream"
  /\ conn[1].onCloseCalled
  /\ conn[2].onConnectCalled /\ ~conn[2].onCloseCalled
  /\ sessions = <<2>>

\* C6: in stdio and HTTP session mode a session gets at most one connect and at
\* most one disconnect event, the disconnect only after the connect, and it is
\* in the active-session list exactly between the two.
C6_ConnectDisconnectOnce ==
  mode \in {"stdio", "httpStream"} =>
    \A c \in Conns :
      /\ connectEvents(c) <= 1
      /\ disconnectEvents(c) <= connectEvents(c)
      /\ disconnectEvents(c) = 1 =>
           \A i \in eventsOf("connect", c) : \A j \in eventsOf("disconnect", c) : i < j
      /\ Count(sessions, c) = connectEvents(c) - disconnectEvents(c)
C6_Witness ==
  /\ mode = "stdio"
  /\ events = << <<"connect", 1, TRUE>>, <<"disconnect", 1, FALSE>> >>
  /\ sess[1].connectionState = "error"
  /\ sess[1].connects = 2

\* C7: in both HTTP modes, when the authenticate hook throws, createServer
\* rejects with the thrown value, no session is created, and the step changes
\* neither the active-session list nor the events.
C7_AuthThrowPropagates ==
  /\ [](\A c \in Conns :
          (mode \in {"httpStream", "stateless"} /\ conn[c].thrown # "none")
          => /\ conn[c].pc = "rejected"
             /\ conn[c].rejection = conn[c].thrown
             /\ ~sess[c].created
             /\ connectEvents(c) = 0
             /\ c \notin Range(sessions))
  /\ [][\A c \in Conns :
          (conn[c].thrown = "none" /\ conn'[c].thrown # "none"
             /\ mode \in {"httpStream", "stateless"})
          => sessions' = sessions /\ events' = events /\ sess' = sess]_vars
C7_Witness ==
  /\ mode \in {"httpStream", "stateless"}
  /\ conn[1].pc = "rejected"
  /\ conn[1].thrown = "Response401"

\* C8: on stdio, when the authenticate hook throws, the hook was called once
\* with no request, one error is logged, and start() goes on to create and
\* connect a session with undefined auth, which it tracks when the connect
\* resolves; start() rejects only if that connect rejects.
C8_StdioAuthDegrades ==
  \A c \in Conns :
    (mode = "stdio" /\ conn[c].thrown # "none")
    => /\ conn[c].authCalls = 1
       /\ conn[c].authRequest = NoRequest
       /\ conn[c].errorLogs = 1
       /\ sess[c].created
       /\ sess[c].auth = "undef"
       /\ sess[c].connects >= 1
       /\ conn[c].pc \in {"connecting", "done", "failed"}
       /\ conn[c].pc = "failed" => conn[c].rejection = "connect"
       /\ conn[c].pc = "done" => connectEvents(c) = 1
C8_Witness ==
  /\ mode = "stdio"
  /\ conn[1].thrown = "Error"
  /\ conn[1].pc = "done"
  /\ sessions = <<1>>
  /\ sess[1].connectionState = "ready"

\* C9 (as stated): on stdio the active-session list never holds more than one
\* session, whatever start() calls and close signals occurred.
C9_AtMostOneSession ==
  mode = "stdio" => Len(sessions) <= 1

\* C10: a call whose arguments violate the tool's parameter schema fails with
\* InvalidParams without running execute and without touching the session, and
\* every call whose execute returns a well-formed value in time, also a later
\* one, yields its result.
C10_InvalidParams ==
  /\ [](\A s \in Conns : \A i \in 1..Len(calls[s]) :
          LET e == calls[s][i]
          IN /\ (e.name \in Range(sess[s].tools) /\ hasParameters(e.name) /\ ~e.argsOk)
                  => e.outcome = "InvalidParams" /\ ~e.executed
             /\ (e.how = "returns" /\ e.value # "malformed" /\ e.timer # "fired"
                   /\ e.phase = "done")
                  => e.outcome = "result")
  /\ [][\A s \in Conns :
          (Len(calls'[s]) > Len(calls[s])
             /\ calls'[s][Len(calls'[s])].outcome = "InvalidParams")
          => sess' = sess]_vars
C10_Witness ==
  /\ sess[1].connectionState = "ready"
  /\ Len(calls[1]) = 2
  /\ calls[1][1].name = "add" /\ calls[1][1].outcome = "InvalidParams"
  /\ calls[1][2].name = "add" /\ calls[1][2].argsOk /\ calls[1][2].outcome = "result"

\* ---- what a client reads off a finished call ----
responded(e) == e.phase = "done" /\ e.outcome # "pending"
oneTextItem(e) == Len(e.content) = 1 /\ e.content[1].type = "text"
timedOutResult(e) ==
  e.outcome = "isError" /\ oneTextItem(e) /\ e.content[1].text = "timed out"

\* C11: every answered call-tool request ends as MethodNotFound (unknown
\* tool), InvalidParams (arguments fail validation) or a result; once execute
\* was called, a thrown UserError, any other thrown value and a returned value
\* of the wrong shape all end as a result with isError and one text item, and
\* no step of a call changes the session.
C11_ErrorsBecomeResults ==
  /\ [](\A s \in Conns : \A i \in 1..Len(calls[s]) :
          LET e == calls[s][i]
          IN /\ e.outcome \in {"pending", "MethodNotFound", "InvalidParams", "result", "isError"}
             /\ e.outcome = "MethodNotFound" <=> e.name \notin Range(sess[s].tools)
             /\ e.outcome = "InvalidParams" <=>
                  (e.name \in Range(sess[s].tools) /\ hasParameters(e.name) /\ ~e.argsOk)
             /\ (e.executed /\ e.phase = "done"
                   /\ (e.how \in {"UserError", "Error"} \/ e.value = "malformed"))
                  => e.outcome = "isError" /\ oneTextItem(e))
  /\ [][\A s \in Conns : calls'[s] # calls[s] => sess'[s] = sess[s]]_vars
C11_Witness ==
  /\ Len(calls[1]) = 2
  /\ calls[1][1].how = "Error" /\ calls[1][1].outcome = "isError"
  /\ calls[1][2].value = "malformed" /\ calls[1][2].outcome = "isError"
  /\ sess[1].connectionState = "ready" /\ sess[1].transportBound

\* C12: for a call of a tool with timeoutMs, the timer firing while execute is
\* still unsettled ends the call as a result with isError whose one text item
\* says "timed out"; execute settling first clears the timer for good, and the
\* call ends with what execute returned or threw, never with the timeout.
C12_TimeoutBoundary ==
  /\ [](\A s \in Conns : \A i \in 1..Len(calls[s]) :
          LET e == calls[s][i]
          IN /\ e.timer # "none" <=> (e.executed /\ hasTimeoutMs(e.name))
             /\ e.timer = "fired" => timedOutResult(e)
             /\ (e.timer = "cleared" /\ responded(e)) =>
                  /\ ~timedOutResult(e)
                  /\ (e.how = "returns" /\ e.value # "malformed") => e.outcome = "result"
                  /\ e.how # "returns" => e.outcome = "isError")
  /\ [][\A s \in Conns : \A i \in 1..Len(calls[s]) :
          calls[s][i].timer = "cleared" => calls'[s][i].timer = "cleared"]_vars
C12_Witness ==
  /\ Len(calls[1]) = 2
  /\ calls[1][1].timer = "fired" /\ timedOutResult(calls[1][1])
  /\ calls[1][2].timer = "cleared" /\ calls[1][2].value = "string"
  /\ calls[1][2].outcome = "result"

\* C13: when the timer wins the race the tool's execute is left running; when
\* it settles later nothing is sent: the call has exactly one response, the
\* timed-out result, and neither the timeout nor the late settling changes the
\* session.
C13_LateOutcomeDiscarded ==
  /\ [](\A s \in Conns : \A i \in 1..Len(calls[s]) :
          LET e == calls[s][i]
          IN /\ e.responses <= 1
             /\ e.timer = "fired" => e.responses = 1 /\ timedOutResult(e))
  /\ [][\A s \in Conns : \A i \in 1..Len(calls[s]) :
          LET e == calls[s][i]
              f == calls'[s][i]
          IN /\ (e.timer = "armed" /\ f.timer = "fired") =>
                  f.running /\ sess'[s] = sess[s]
             /\ (e.timer = "fired" /\ e.running /\ ~f.running) =>
                  /\ f.responses = e.responses
                  /\ f.content = e.content
                  /\ f.outcome = e.outcome
                  /\ f.wire = e.wire
                  /\ sess'[s] = sess[s]]_vars
C13_Witness ==
  /\ Len(calls[1]) >= 1
  /\ calls[1][1].timer = "fired" /\ ~calls[1][1].running
  /\ calls[1][1].how = "returns" /\ calls[1][1].responses = 1
  /\ sess[1].connectionState = "ready"

\* C14: when a call is answered, every notification its tool issued while the
\* handler was still waiting for it has reached the client, in the order
\* issued, before the final response.
C14_NotificationsBeforeResult ==
  \A s \in Conns : \A i \in 1..Len(calls[s]) :
    LET e == calls[s][i]
    IN responded(e) =>
         /\ e.buffer = <<>>
         /\ e.wire = [k \in 1..e.issued |-> k] \o <<0>>

\* C15: the result of a call whose execute returned in time follows from the
\* returned value alone: a string gives one text item holding it, undefined an
\* empty content list, a content item a list of that one item, an object of the
\* envelope shape its own content; no other value is returned as a result.
C15_ResultNormalisation ==
  \A s \in Conns : \A i \in 1..Len(calls[s]) :
    LET e == calls[s][i]
    IN (responded(e) /\ e.how = "returns" /\ e.timer # "fired") =>
         /\ e.value = "string" =>
              e.outcome = "result" /\ e.content = <<[type |-> "text", text |-> "hello"]>>
         /\ e.value = "undefined" => e.outcome = "result" /\ e.content = <<>>
         /\ e.value = "item" => e.outcome = "result" /\ e.content = <<theItem>>
         /\ e.value = "envelope" => e.outcome = "result" /\ e.content = theEnvelope
         /\ e.value = "malformed" => e.outcome # "result"
C15_Witness ==
  /\ Len(calls[1]) = 2
  /\ calls[1][1].value = "string" /\ calls[1][1].outcome = "result"
  /\ calls[1][2].value = "undefined" /\ calls[1][2].outcome = "result"
  /\ calls[1][2].content = <<>>

\* C16: waitForReady() called on a ready session resolves at once, on a session
\* in error or closed rejects at once, and otherwise stays pending until the
\* ready event resolves it, the error event rejects it or the five-second timer
\* rejects it; it resolves only in a step that leaves the session ready, and a
\* pending waiter always settles.
C16_WaitForReady ==
  /\ [][\A s \in Conns :
          LET r == sess[s]
              q == sess'[s]
          IN /\ q.waits > r.waits =>
                  /\ r.connectionState = "ready" => q.waiter = "resolved"
                  /\ r.connectionState \in {"error", "closed"} => q.waiter = "rejected"
                  /\ r.connectionState = "connecting" => q.waiter = "pending"
             /\ (r.waiter = "pending" /\ q.readyEvents > r.readyEvents) => q.waiter = "resolved"
             /\ (r.waiter = "pending" /\ q.errorEvents > r.errorEvents) => q.waiter = "rejected"
             /\ (r.waiter = "pending" /\ q.waiter = "rejected") =>
                  q.errorEvents > r.errorEvents \/ q.waiterBy = "timeout"
             /\ (r.waiter # "resolved" /\ q.waiter = "resolved") => q.connectionState = "ready"
             /\ (r.waiter \in {"resolved", "rejected"} /\ q.waits = r.waits) => q.waiter = r.waiter]_vars
  /\ \A s \in Conns : (sess[s].waiter = "pending") ~> (sess[s].waiter # "pending")
C16_Witness ==
  /\ sess[1].waiter = "resolved" /\ sess[1].waiterBy = "ready"
  /\ sess[1].connectionState = "ready"

\* C17: when the fetch started by a roots-list-changed notification succeeds,
\* the fetched list becomes the session's roots as it is and one rootsChanged
\* event carrying it is emitted; when the fetch fails, the roots stay as they
\* were and no rootsChanged event is emitted.
C17_RootsReplaced ==
  [][\A s \in Conns :
       LET r == sess[s]
           q == sess'[s]
       IN Len(q.fetched) > Len(r.fetched) =>
            LET res == q.fetched[Len(q.fetched)]
            IN IF res[1] = "ok"
                 THEN q.roots = res[2] /\ q.rootsChanged = Append(r.rootsChanged, res[2])
                 ELSE q.roots = r.roots /\ q.rootsChanged = r.rootsChanged]_vars
C17_Witness ==
  /\ Len(sess[1].fetched) = 2
  /\ sess[1].fetched[1] = <<"ok", <<"file:///a">>>>
  /\ sess[1].fetched[2] = <<"ok", <<"file:///b">>>>
  /\ sess[1].roots = <<"file:///b">>
  /\ Len(sess[1].rootsChanged) = 2

\* C18: with roots.enabled = false in the server options no session ever asks
\* the client for its roots, every session's roots list stays empty and no
\* rootsChanged event is emitted.
C18_RootsDisabled ==
  options.rootsEnabled = "false" =>
    \A s \in Conns : /\ sess[s].rootsRequests = 0
                     /\ sess[s].roots = <<>>
                     /\ sess[s].rootsChanged = <<>>

\* C19: a keep-alive ping that fails leaves the session's connection state, its
\* error events, the server's session list and events and the session's ping
\* timers as they were; it adds one log entry at the configured level (debug
\* when none is configured).
C19_PingFailureOnlyLogs ==
  [][\A s \in Conns :
       LET r == sess[s]
           q == sess'[s]
       IN (q.pings > r.pings /\ q.pingLog # r.pingLog) =>
            /\ q.connectionState = r.connectionState
            /\ q.errorEvents = r.errorEvents
            /\ q.pingTimers = r.pingTimers /\ q.pingTimers # {}
            /\ sessions' = sessions /\ events' = events
            /\ q.pingLog = Append(r.pingLog, IF options.pingLogLevel = "unset"
                                               THEN "debug" ELSE options.pingLogLevel)]_vars

\* the keep-alive timer of the latest connect() of session s is running
pingStarted(s) == sess[s].pingInterval = sess[s].connects /\ sess[s].connects \in sess[s].pingTimers
\* connect() of session s has completed and left it ready
connected(s) == sess[s].connectionState = "ready" /\ sess[s].cpc = "resolved"

C21_LoggingLevel ==
  \A s \in Conns :
    sess[s].loggingLevel =
      IF sess[s].setLevels = <<>> THEN "info"
                                  ELSE sess[s].setLevels[Len(sess[s].setLevels)]

\* two set-level requests with different levels on one session, a different
\* level on the other, and a tool call answered in between
C21_Witness ==
  /\ sess[1].setLevels = <<"debug", "error">>
  /\ sess[2].setLevels = <<"debug">>
  /\ Len(calls[1]) > 0 /\ calls[1][1].outcome = "result"

\* the answer a GET /ready gets by the statement of C22, from the state the
\* request finds
trackedReady == Cardinality({i \in 1..Len(sessions) : sess[sessions[i]].connectionState = "ready"})
getReadyStep == http'.n = http.n + 1 /\ http'.method = "GET" /\ http'.path = "/ready"
readyAnswered ==
  IF mode = "stateless"
    THEN /\ http'.status = 200
         /\ http'.body = [kind |-> "json", text |-> "", mode |-> "stateless", ready |-> 1,
                          status |-> "ready", total |-> 1]
    ELSE /\ http'.body.kind = "json"
         /\ http'.body.ready = trackedReady
         /\ http'.body.total = Len(sessions)
         /\ http'.body.ready <= http'.body.total
         /\ IF Len(sessions) > 0 /\ trackedReady = Len(sessions)
              THEN http'.status = 200 /\ http'.body.status = "ready"
              ELSE http'.status = 503 /\ http'.body.status # "ready"

\* C22 as stated: every GET /ready is answered with the counts of the tracked
\* sessions, 200 exactly when all of at least one are ready and 503 otherwise,
\* and with the fixed stateless answer in stateless mode.
C22_Original == [][getReadyStep => readyAnswered]_vars

\* C22: while the health endpoints are enabled and the liveness path is not
\* /ready itself, every GET /ready is answered that way.
C22_Ready ==
  [][(getReadyStep /\ healthEnabled /\ healthPath # "/ready") => readyAnswered]_vars

\* a GET /ready answered 200 with two ready sessions tracked
C22_Witness ==
  /\ mode = "httpStream"
  /\ healthEnabled /\ healthPath # "/ready"
  /\ http.method = "GET" /\ http.path = "/ready"
  /\ http.status = 200
  /\ http.body.total = 2

\* the first value given, in the order explicit option, flag, variable, default
expectedTransport ==
  or4(runtime.overrides.transportType,
      IF runtime.args.transport = "http-stream" THEN "httpStream" ELSE runtime.args.transport,
      runtime.env.transport, "stdio")
expectedPort ==
  IF runtime.overrides.port # <<>> THEN runtime.overrides.port[1]
  ELSE IF runtime.args.port # "unset" THEN parseInt(runtime.args.port)
  ELSE IF runtime.env.port # "unset" THEN parseInt(runtime.env.port)
  ELSE 8080
expectedStateless ==
  or4(runtime.overrides.stateless, runtime.args.stateless, runtime.env.stateless, "false") = "true"

\* C23: the configuration start() runs with takes each transport setting from
\* the explicit option if given, else from the command-line flag, else from the
\* environment variable, else the default (pipe, /mcp, 8080, localhost, not
\* stateless).
C23_Precedence ==
  runtime.parsed =>
    /\ runtime.config.transportType = expectedTransport
    /\ runtime.config.transportType = "httpStream" =>
         /\ runtime.config.port = expectedPort
         /\ runtime.config.endpoint =
              or4(runtime.overrides.endpoint, runtime.args.endpoint, runtime.env.endpoint, "/mcp")
         /\ runtime.config.host =
              or4(runtime.overrides.host, runtime.args.host, runtime.env.host, "localhost")
         /\ runtime.config.stateless = expectedStateless

\* the auth value of the session of connection s: what the hook resolved to
\* for that connection, undefined when no hook ran
authOf(s) == IF conn[s].resolved = "none" THEN "undef" ELSE conn[s].resolved

\* C24: every tool execute, resource load, template load, prompt load and
\* completer a session has invoked was handed the auth value the authenticate
\* hook resolved to for that session's connection.
C24_AuthThreaded ==
  \A s \in Conns :
    /\ \A i \in 1..Len(calls[s]) : calls[s][i].executed => calls[s][i].session = authOf(s)
    /\ \A i \in 1..Len(reqs[s]) : reqs[s][i].loads > 0 => reqs[s][i].auth = authOf(s)

\* two sessions with different auth values, a template load of the one and a
\* prompt load of the other in flight at the same time, a tool executed
C24_Witness ==
  /\ conn[1].resolved = "admin" /\ conn[2].resolved = "user"
  /\ Len(calls[1]) > 0 /\ calls[1][1].executed
  /\ Len(reqs[1]) = 2 /\ reqs[1][2].phase = "load" /\ reqs[1][2].via = "template"
  /\ reqs[1][1].via = "completer" /\ reqs[1][1].outcome = "result"
  /\ Len(reqs[2]) = 2 /\ reqs[2][2].phase = "load" /\ reqs[2][2].via = "prompt"
  /\ reqs[2][1].via = "resource" /\ reqs[2][1].outcome = "result"

\* the get-prompt requests session s has handled
promptRequests(s) == {i \in 1..Len(reqs[s]) : reqs[s][i].kind = "getPrompt"}
lacksRequired(e) ==
  \E k \in 1..Len(promptArguments(e.name)) :
    argRequired(e.name, promptArguments(e.name)[k]) /\ promptArguments(e.name)[k] \notin e.args

\* C25: a get-prompt request for an unknown prompt fails before any load; one
\* that lacks a required argument fails with an invalid-request error naming
\* the prompt and a missing required argument, and load is not invoked; when
\* load is invoked and throws the request fails with an internal error naming
\* the prompt.
C25_PromptErrors ==
  \A s \in Conns : \A i \in promptRequests(s) :
    LET e == reqs[s][i]
    IN /\ e.name \notin Range(registry.prompts) =>
            e.outcome = "MethodNotFound" /\ e.loads = 0
       /\ (e.name \in Range(registry.prompts) /\ lacksRequired(e)) =>
            /\ e.outcome = "InvalidRequest"
            /\ e.message.name = e.name
            /\ argRequired(e.name, e.message.argument)
            /\ e.message.argument \notin e.args
            /\ e.loads = 0
       /\ e.how = "throws" =>
            e.outcome = "InternalError" /\ e.message.name = e.name

\* a request without the required argument refused, then one whose load threw
C25_Witness ==
  /\ Len(reqs[1]) = 2
  /\ reqs[1][1].name = "greet" /\ reqs[1][1].args = {"style"}
  /\ reqs[1][1].outcome = "InvalidRequest"
  /\ reqs[1][2].name = "greet" /\ reqs[1][2].how = "throws"

\* the read-resource requests session s has handled
resourceRequests(s) == {i \in 1..Len(reqs[s]) : reqs[s][i].kind = "readResource"}

\* C26: a read-resource request whose load failed, for an exact resource or
\* for a template, is answered with an internal error whose message carries
\* the name and URI (pattern) of the resource that was loaded; a URI that
\* nothing serves is answered with a not-found error whose message lists every
\* registered resource URI.
C26_ResourceErrors ==
  \A s \in Conns : \A i \in resourceRequests(s) :
    LET e == reqs[s][i]
    IN /\ e.how = "throws" =>
            /\ e.outcome = "InternalError"
            /\ e.message.name = e.name
            /\ e.message.uri = e.matched
       /\ (e.via = "none" /\ e.phase = "done") =>
            /\ e.outcome = "MethodNotFound"
            /\ e.message.listed = registry.resources

\* the completion requests session s has answered with a completion
completions(s) ==
  {i \in 1..Len(reqs[s]) : reqs[s][i].kind = "complete" /\ reqs[s][i].outcome = "result"}

\* C27: a completion delivered to the client carries at most 100 values; for a
\* prompt argument they come from the argument's completer when it has one,
\* else from the matcher over its enum when it has one, else there are none.
C27_CompletionCap ==
  \A s \in Conns : \A i \in completions(s) :
    LET e == reqs[s][i]
    IN /\ Len(e.result) <= 100
       /\ e.name # "none" =>
            e.via = (IF hasComplete(e.name, e.argument) THEN "completer"
                     ELSE IF hasEnum(e.name, e.argument) THEN "enum" ELSE "empty")
       /\ e.via = "enum" => Range(e.result) \subseteq Range(argEnum(e.name, e.argument))
       /\ e.via = "empty" => e.result = <<>>

\* a completer that resolved with 100 values was delivered, and the 101 matches
\* of the large enum were not
C27_Witness ==
  /\ Len(reqs[1]) = 2
  /\ reqs[1][1].via = "completer" /\ reqs[1][1].outcome = "result" /\ Len(reqs[1][1].result) = 100
  /\ reqs[1][2].name = "catalog" /\ reqs[1][2].via = "enum" /\ reqs[1][2].outcome = "InternalError"

\* no key occurs twice in the sequence
unique(q) == \A i, j \in 1..Len(q) : q[i] = q[j] => i = j

\* C28: each registry holds at most one entry per key: no two tools and no two
\* prompts with the same name, no two resources with the same URI, no two
\* templates with the same URI pattern.
C28_UniqueKeys ==
  /\ unique(tools)
  /\ unique(registry.prompts)
  /\ unique(registry.resources)
  /\ unique(registry.resourcesTemplates)

\* C29: two list requests of the same kind in one session get the same answer,
\* whatever tool calls, resource reads, prompt gets and set-level requests the
\* session handled between them (the registries do not change after start()).
C29_ListIdempotent ==
  \A s \in Conns : \A i, j \in 1..Len(sess[s].lists) :
    sess[s].lists[i].kind = sess[s].lists[j].kind =>
      sess[s].lists[i].result = sess[s].lists[j].result

\* two list-tools requests, with a tool call, a read and a set-level request
\* handled between them
C29_Witness ==
  /\ Len(sess[1].lists) = 2
  /\ sess[1].lists[1].kind = "listTools" /\ sess[1].lists[2].kind = "listTools"
  /\ sess[1].lists[1].first
  /\ ~sess[1].lists[2].first
  /\ Len(calls[1]) > 0 /\ Len(reqs[1]) > 0 /\ Len(sess[1].setLevels) > 0

\* the step in which the polling loop of session s ends without capabilities
\* and connect() runs to its end
gaveUpStep(s) ==
  /\ sess[s].cpc = "poll"
  /\ sess'[s].cpc # "poll"
  /\ sess'[s].clientCapabilities = "none"

\* C30: connect() asks for the client capabilities at most 10 times; the
\* handshake leaves the polling loop and comes to its end; when the
\* capabilities never arrived it ends after the 10th poll with the session
\* ready, the ready event emitted once, no capabilities stored, one warning
\* logged, and neither an error event nor a rejection.
C30_BoundedPolling ==
  /\ [](\A s \in Conns : sess[s].polls <= maxAttempts)
  /\ [][\A s \in Conns : gaveUpStep(s) =>
          /\ sess[s].polls = maxAttempts
          /\ sess'[s].connectionState = "ready"
          /\ sess'[s].readyEvents = sess[s].readyEvents + 1
          /\ sess'[s].warnings = sess[s].warnings + 1
          /\ sess'[s].errorEvents = sess[s].errorEvents
          /\ sess'[s].cpc = "resolved"]_vars
  /\ (connectInFlight(sess[1]) /\ sess[1].cpc # "serverConnect")
        ~> ~connectInFlight(sess[1])

\* a handshake that ended after ten polls without capabilities
C30_Witness ==
  /\ sess[1].polls = maxAttempts
  /\ sess[1].cpc = "resolved"
  /\ sess[1].clientCapabilities = "none"
  /\ sess[1].connectionState = "ready"
  /\ sess[1].warnings = 1

C32_NoTimerAfterClose ==
  /\ [](sess[1].closeCalled => sess[1].pingTimers = {})
  /\ [][sess[1].closeCalled => sess'[1].pings = sess[1].pings]_vars

\* a step in which close() runs on session 1; the state a close() leaves
closeStep ==
  SessionClose(1) \/ HttpOnClose(1) \/ \E dropped \in BOOLEAN : SessionCloseFail(1, dropped)
afterClose(r) == r.closeCalled /\ r.connectionState = "closed"

\* C33: close() never rejects, also when closing the transport fails (the
\* failure is only logged); after a close() the session is 'closed' with no
\* keep-alive timer active, and a second close() right after it leaves the
\* session in that same state.
C33_CloseIdempotent ==
  /\ [](sess[1].closeResult # "rejected")
  /\ [](afterClose(sess[1]) => sess[1].pingTimers = {})
  /\ [][(afterClose(sess[1]) /\ closeStep) =>
         /\ sess'[1].connectionState = "closed"
         /\ sess'[1].pingTimers = sess[1].pingTimers]_vars

\* the first registered template that fits the URI, <<>> when none does
firstFitting(uri) ==
  LET tpls == registry.resourcesTemplates
      at == {i \in 1..Len(tpls) : fits(tpls[i], uri) /\ \A j \in 1..(i-1) : ~fits(tpls[j], uri)}
  IN IF at = {} THEN <<>> ELSE tpls[CHOOSE i \in at : TRUE]

\* C34: a read-resource request whose URI is that of a registered resource
\* calls that resource's load and no template's load, also when a template fits
\* the URI; otherwise, when templates fit, exactly the load of the first
\* registered one of them is called; no request calls more than one load.
C34_ExactBeforeTemplates ==
  \A i \in 1..Len(reqs[1]) :
    LET e == reqs[1][i]
    IN e.kind = "readResource" =>
         /\ e.loads <= 1
         /\ e.uri \in Range(registry.resources) =>
              e.loads = 1 /\ e.via = "resource" /\ e.matched = e.uri
         /\ (e.uri \notin Range(registry.resources) /\ firstFitting(e.uri) # <<>>) =>
              e.loads = 1 /\ e.via = "template" /\ e.matched = firstFitting(e.uri)
         /\ (e.uri \notin Range(registry.resources) /\ firstFitting(e.uri) = <<>>) =>
              e.loads = 0 /\ e.outcome = "MethodNotFound"

\* one request read a registered resource that a template fits too, another
\* read a URI that two templates fit; both loads returned
C34_Witness ==
  /\ Len(reqs[1]) = 2
  /\ \E i, j \in 1..2 :
       /\ reqs[1][i].uri \in Range(registry.resources)
       /\ firstFitting(reqs[1][i].uri) # <<>>
       /\ reqs[1][i].via = "resource" /\ reqs[1][i].outcome = "result"
       /\ reqs[1][j].uri \notin Range(registry.resources)
       /\ Len(SelectSeq(registry.resourcesTemplates, LAMBDA t : fits(t, reqs[1][j].uri))) = 2
       /\ registry.resourcesTemplates[1] # registry.resourcesTemplates[2]
       /\ reqs[1][j].via = "template" /\ reqs[1][j].outcome = "result"

C36_RejectionsHandled ==
  \A i \in 1..Len(calls[1]) :
    LET e == calls[1][i]
    IN (e.executed /\ hasTimeoutMs(e.name) /\ e.how \in {"UserError", "Error"}) =>
         /\ e.responses = 1
         /\ e.outcome = "isError"
         /\ e.unhandled = 0

\* C37: once every roots fetch of a session has completed (the initial one of
\* connect() and those of the roots-changed notifications, in flight together
\* or not), the session's roots list is the list in the response to the fetch
\* that was issued last, and when a notification issued that fetch the last
\* rootsChanged event carries the same list, in whatever order the responses
\* arrived.
C37_LatestFetchWins ==
  LET r == sess[1]
  IN (r.pending = {} /\ r.latest[2] # <<>>) =>
       /\ r.roots = r.latest[2]
       /\ r.latest[3] = "handler" =>
            /\ r.rootsChanged # <<>>
            /\ r.rootsChanged[Len(r.rootsChanged)] = r.latest[2]

\* C38: in the pipe and HTTP session-affinity modes a 'connect' event is
\* delivered for a session that is already in the active-session list, and a
\* 'disconnect' event for a session that is no longer in it.
C38_EventOrdering ==
  mode \in {"stdio", "httpStream"} =>
    \A i \in 1..Len(events) :
      /\ events[i][1] = "connect" => events[i][3]
      /\ events[i][1] = "disconnect" => ~events[i][3]

\* two sessions were announced and one of them has been dropped again
C38_Witness ==
  /\ mode \in {"stdio", "httpStream"}
  /\ \E c, d \in Conns :
       /\ c # d
       /\ connectEvents(c) = 1 /\ connectEvents(d) = 1
       /\ disconnectEvents(c) = 1
       /\ sessions = <<d>>

\* C39: a session constructed with an empty tool set (no tool registered, or
\* every tool rejected by its access predicate) does not advertise the tools
\* capability and has neither the list-tools nor the call-tool handler; no
\* call-tool request sent to it reaches a tool's execute.
C39_EmptyToolSet ==
  (sess[1].created /\ sess[1].tools = <<>>) =>
    /\ "tools" \notin sess[1].capabilities
    /\ ~sess[1].toolHandlers
    /\ listTools(1) = {}
    /\ \A i \in 1..Len(calls[1]) :
         ~calls[1][i].executed /\ calls[1][i].outcome = "MethodNotFound"

\* an HTTP session whose auth value the predicate of the only registered tool
\* rejects, and which has answered a call of that tool
C39_Witness ==
  /\ sess[1].created
  /\ tools = <<"admin-tool">>
  /\ sess[1].auth = "user"
  /\ sess[1].tools = <<>>
  /\ Len(calls[1]) > 0
  /\ calls[1][1].name = "admin-tool"

\* C40: with health.enabled set to false a GET /ready is answered with the bare
\* 404 in both HTTP modes, whatever the states of the sessions are.
C40_ReadyNeedsHealth ==
  (mode \in {"httpStream", "stateless"} /\ options.healthEnabled = "false"
     /\ http.method = "GET" /\ http.path = "/ready") =>
    http.status = 404 /\ http.body = NoBody

\* with the health endpoints switched off, a GET /ready got 404 while the one
\* tracked session was ready
C40_Witness ==
  /\ mode = "httpStream"
  /\ options.healthEnabled = "false"
  /\ http.method = "GET" /\ http.path = "/ready"
  /\ http.status = 404
  /\ Len(sessions) = 1
  /\ readySessions = 1

====
